---- MODULE Spec2Model ----
(***************************************************************************)
(* ManualStudio backend: the job state machine and the versioned step-data *)
(* ledger of app/api/routes.py, over the tables of app/db/models.py.       *)
(*                                                                         *)
(* The database holds committed rows only.  Every request handler runs in  *)
(* its own SQLAlchemy session (get_db) and is a sequence of steps, one per *)
(* access to a shared resource (database, Artifact Store, task broker);    *)
(* steps of different requests and of the worker interleave.  A session    *)
(* keeps the row it loaded; a commit writes the attributes whose value     *)
(* differs from the loaded one (the unit of work's UPDATE), and after a    *)
(* commit the instance is expired, so a later assignment is written        *)
(* unconditionally.                                                        *)
(*                                                                         *)
(* uuid4() is modelled as a source of fresh values (counters).  The        *)
(* timestamps created_at/updated_at are not modelled.                      *)
(***************************************************************************)
EXTENDS Integers, Sequences, FiniteSets, Bags, TLC

\* ------------------------------------------------------------------ bounds
\* client requests started in one behaviour
MaxRequests == 3
\* jobs created by create_job in one behaviour
MaxJobs == 1
\* concurrent request sessions
MaxThreads == 2
\* files in one batch request (besides the over-long request)
MaxBatchLen == 2
\* batch requests started in one behaviour
MaxBatches == 2
\* rows of the jobs table that list_jobs pages over
MaxListJobs == 3
\* page numbers and page sizes a client asks list_jobs for
MaxPage == 3
MaxPageSize == 2
\* list requests in one behaviour
MaxListRequests == 1
\* the largest max_retries generate_steps is called with
MaxRetries == 2

Threads == 1..MaxThreads

\* ------------------------------------------------------- values and tables
\* Python None / SQL NULL
NULL == "NULL"

JobStatus == {"QUEUED", "RUNNING", "SUCCEEDED", "FAILED", "CANCELED"}

\* settings.max_video_size_mb, in megabytes
max_video_size_mb == 1024

ALLOWED_VIDEO_EXTENSIONS == {".mp4", ".mov", ".avi", ".mkv", ".webm"}

settings_s3_bucket == "manualstudio"

\* f"s3://{settings.s3_bucket}/{key}"
S3Uri(key) == "s3://" \o settings_s3_bucket \o "/" \o key

\* the n-th uuid4() used as a job id, and the n-th str(uuid4())[:8]
JobUuid(n) == "j" \o ToString(n)
TraceUuid(n) == "t" \o ToString(n)

\* f"jobs/{job_id}/input{ext}"
VideoKey(job_id, ext) == "jobs/" \o job_id \o "/input" \o ext

\* f"jobs/{job_id}/steps_v{new_version}.json"
StepsKey(job_id, version) ==
    "jobs/" \o job_id \o "/steps_v" \o ToString(version) \o ".json"

\* task ids of the two kinds of task
PipelineTaskId(job_id) == job_id
PptxTaskId(job_id, trace_id) == job_id \o "-pptx-" \o trace_id

PipelineTask(job_id) ==
    [name |-> "process_video", job |-> job_id, task_id |-> PipelineTaskId(job_id)]
PptxTask(job_id, trace_id) ==
    [name |-> "regenerate_pptx", job |-> job_id,
     task_id |-> PptxTaskId(job_id, trace_id)]

\* a Job whose current_steps_version column defaults to 0
NewJobVersionZero(trace_id) ==
    [status |-> "QUEUED", stage |-> NULL, progress |-> 0,
     input_video_uri |-> NULL, audio_uri |-> NULL, steps_json_uri |-> NULL,
     pptx_uri |-> NULL, frames_prefix_uri |-> NULL, transcript_uri |-> NULL,
     current_steps_version |-> 0,
     error_code |-> NULL, error_message |-> NULL, trace_id |-> trace_id]

\* Job(id=job_id, status=QUEUED, ..., trace_id=trace_id) with the column defaults
NewJob(trace_id) ==
    [status |-> "QUEUED", stage |-> NULL, progress |-> 0,
     input_video_uri |-> NULL, audio_uri |-> NULL, steps_json_uri |-> NULL,
     pptx_uri |-> NULL, frames_prefix_uri |-> NULL, transcript_uri |-> NULL,
     current_steps_version |-> 1,
     error_code |-> NULL, error_message |-> NULL, trace_id |-> trace_id]

\* a language code no list of language codes has, next to the form's default
UnknownLanguage == "zz"
Languages == {"ja", UnknownLanguage}

\* the multipart forms sent to create_job: the upload's extension and its size
\* in megabytes (0: an empty file), and the language field, which the handler
\* copies to the row unexamined
Files == [ext : {".mp4", ".txt"}, size_mb : {0, 1, max_video_size_mb + 1},
          language : Languages]

\* ------------------------------------------------------------------- state
VARIABLES
    jobs,       \* table jobs: job id -> committed row
    versions,   \* table steps_versions: sequence of committed rows
    store,      \* Artifact Store: key -> blob
    queue,      \* broker: bag of dispatched tasks not yet taken by a worker
    runs,       \* worker: bag of tasks being executed
    revoked,    \* task ids for which revoke was requested
    thr,        \* request sessions: thread -> handler position and locals
    out,        \* the response emitted by the last step, if any
    nreq,       \* requests started
    njobs,      \* job ids generated
    ntrace      \* trace ids generated

vars == <<jobs, versions, store, queue, runs, revoked, thr, out, nreq, njobs, ntrace>>

db == <<jobs, versions>>

Idle == [op |-> "idle", pc |-> "idle"]
\* HTTPException(status_code, detail) or a success body; the members a body
\* does not carry keep their filler value
Response(t, op, job_id, code, detail) ==
    [op |-> op, job |-> job_id, code |-> code, detail |-> detail,
     version |-> 0, edit_source |-> NULL, steps_json |-> NULL,
     trace_id |-> NULL, task_id |-> NULL,
     created |-> <<>>, errors |-> <<>>]

Silent == Response(0, "none", NULL, 0, NULL)

JobIds == DOMAIN jobs

\* the UPDATE a flush emits: only attributes whose value differs from the loaded one
Flush(row, loaded, pending) ==
    [f \in DOMAIN row |-> IF pending[f] # loaded[f] THEN pending[f] ELSE row[f]]

Init ==
    /\ jobs = <<>>
    /\ versions = <<>>
    /\ store = <<>>
    /\ queue = EmptyBag
    /\ runs = EmptyBag
    /\ revoked = {}
    /\ thr = [t \in Threads |-> Idle]
    /\ out = Silent
    /\ nreq = 0
    /\ njobs = 0
    /\ ntrace = 0

\* a request is served by the first free session, while the budget lasts
CanStart(t) ==
    /\ thr[t].pc = "idle"
    /\ \A u \in Threads : u < t => thr[u].pc # "idle"
    /\ nreq < MaxRequests

\* -------------------------------------------------------------- create_job
\* a create_job that skips both checks on the upload
CreateJobUnchecked(t, file, upload_ok) ==
    /\ CanStart(t)
    /\ nreq' = nreq + 1
    /\ UNCHANGED <<jobs, versions, queue, runs, revoked>>
    /\ njobs < MaxJobs
    /\ njobs' = njobs + 1
    /\ ntrace' = ntrace + 1
    /\ LET job_id == JobUuid(njobs + 1)
           video_key == VideoKey(job_id, file.ext)
       IN IF upload_ok
          THEN /\ store' = (video_key :> "video") @@ store
               /\ thr' = [thr EXCEPT ![t] =
                     [op |-> "create", pc |-> "commit", job |-> job_id,
                      video_key |-> video_key,
                      pending |-> [NewJob(TraceUuid(ntrace + 1)) EXCEPT
                          !.input_video_uri = S3Uri(video_key)]]]
               /\ out' = Silent
          ELSE /\ out' = Response(t, "create", job_id, 500,
                                  "Failed to upload video")
               /\ UNCHANGED <<store, thr>>

\* lines 69-117: validation, Job(...), db.add, upload of the input video
CreateJob(t, file, upload_ok) ==
    /\ CanStart(t)
    /\ nreq' = nreq + 1
    /\ UNCHANGED <<jobs, versions, queue, runs, revoked>>
    /\ IF file.ext \notin ALLOWED_VIDEO_EXTENSIONS
       THEN /\ out' = Response(t, "create", NULL, 400, "Unsupported video format")
            /\ UNCHANGED <<store, thr, njobs, ntrace>>
       ELSE IF file.size_mb > max_video_size_mb
       THEN /\ out' = Response(t, "create", NULL, 400, "Video file too large")
            /\ UNCHANGED <<store, thr, njobs, ntrace>>
       ELSE /\ njobs < MaxJobs
            /\ njobs' = njobs + 1
            /\ ntrace' = ntrace + 1
            /\ LET job_id == JobUuid(njobs + 1)
                   video_key == VideoKey(job_id, file.ext)
               IN IF upload_ok
                  THEN /\ store' = (video_key :> "video") @@ store
                       /\ thr' = [thr EXCEPT ![t] =
                             [op |-> "create", pc |-> "commit", job |-> job_id,
                              video_key |-> video_key,
                              pending |-> [NewJob(TraceUuid(ntrace + 1)) EXCEPT
                                  !.input_video_uri = S3Uri(video_key)]]]
                       /\ out' = Silent
                  ELSE /\ out' = Response(t, "create", job_id, 500,
                                          "Failed to upload video")
                       /\ UNCHANGED <<store, thr>>

\* line 119: db.commit() inserts the row
CreateCommit(t) ==
    /\ thr[t].op = "create" /\ thr[t].pc = "commit"
    /\ jobs' = (thr[t].job :> thr[t].pending) @@ jobs
    /\ thr' = [thr EXCEPT ![t].pc = "dispatch"]
    /\ out' = Silent
    /\ UNCHANGED <<versions, store, queue, runs, revoked, nreq, njobs, ntrace>>

\* an except branch that marks the job FAILED without an error code
QueueErrorUpdateNoCode(row) ==
    [row EXCEPT !.status = "FAILED"]

\* lines 128-132: the assignments of the except branch, written by db.commit()
QueueErrorUpdate(row) ==
    [row EXCEPT !.status = "FAILED", !.error_code = "QUEUE_ERROR",
                !.error_message = "send_task failed"]

\* lines 121-132 and 139-148: send_task, and on failure the FAILED commit; the
\* 201 body reads job.status, which the commit expired, from the database
CreateDispatch(t, send_ok) ==
    /\ thr[t].op = "create" /\ thr[t].pc = "dispatch"
    /\ UNCHANGED <<versions, store, runs, revoked, nreq, njobs, ntrace>>
    /\ IF send_ok
       THEN /\ queue' = queue (+) SetToBag({PipelineTask(thr[t].job)})
            /\ out' = Response(t, "create", thr[t].job, 201, jobs[thr[t].job].status)
            /\ thr' = [thr EXCEPT ![t] = Idle]
            /\ UNCHANGED jobs
       ELSE /\ jobs' = [jobs EXCEPT ![thr[t].job] = QueueErrorUpdate(@)]
            /\ thr' = [thr EXCEPT ![t].pc = "cleanup"]
            /\ out' = Silent
            /\ UNCHANGED queue

\* the keys of m without key k
DropKey(m, k) == [x \in DOMAIN m \ {k} |-> m[x]]

\* a cleanup that lets the exception of a failing delete through
CreateCleanupReraises(t, delete_ok) ==
    /\ thr[t].op = "create" /\ thr[t].pc = "cleanup"
    /\ store' = IF delete_ok THEN DropKey(store, thr[t].video_key) ELSE store
    /\ out' = Response(t, "create", thr[t].job, 500,
                       IF delete_ok THEN "Failed to queue processing task"
                       ELSE "Internal Server Error")
    /\ thr' = [thr EXCEPT ![t] = Idle]
    /\ UNCHANGED <<jobs, versions, queue, runs, revoked, nreq, njobs, ntrace>>

\* lines 133-137: best-effort delete of the uploaded video, then the 500
CreateCleanup(t, delete_ok) ==
    /\ thr[t].op = "create" /\ thr[t].pc = "cleanup"
    /\ store' = IF delete_ok THEN DropKey(store, thr[t].video_key) ELSE store
    /\ out' = Response(t, "create", thr[t].job, 500, "Failed to queue processing task")
    /\ thr' = [thr EXCEPT ![t] = Idle]
    /\ UNCHANGED <<jobs, versions, queue, runs, revoked, nreq, njobs, ntrace>>

\* ------------------------------------------------------- request job ids
\* a path parameter is the uuid of the tests' fixture job (which names no job
\* when the database starts empty), one of the uuids create_job generates, or
\* a string uuid.UUID() rejects
MalformedId == "not-a-uuid"
FixtureId == "jf"
RequestIds == {FixtureId, MalformedId} \cup {JobUuid(n) : n \in 1..MaxJobs}

\* uuid.UUID(job_id) does not raise ValueError
IsUuid(job_id) == job_id # MalformedId

InvalidId(t, op, job_id) ==
    Response(t, op, job_id, 400, "Invalid job ID format")
NotFound(t, op, job_id) ==
    Response(t, op, job_id, 404, "Job not found")

\* a handler that answers at once and touches nothing
Reply(t, resp) ==
    /\ out' = resp
    /\ UNCHANGED <<jobs, versions, store, queue, runs, revoked, thr, njobs, ntrace>>

\* -------------------------------------------------------------- cancel_job
\* a guard that also lets a finished job be canceled
CancelAllowedFinished(status) == status \in {"QUEUED", "RUNNING", "SUCCEEDED"}

\* line 748
CancelAllowed(status) == status \in {"QUEUED", "RUNNING"}

\* lines 757-758
CancelUpdate(loaded) == [loaded EXCEPT !.status = "CANCELED"]

\* lines 739-752: parse the id, load the job, check the status
CancelJob(t, job_id) ==
    /\ CanStart(t)
    /\ nreq' = nreq + 1
    /\ IF ~IsUuid(job_id) THEN Reply(t, InvalidId(t, "cancel", job_id))
       ELSE IF job_id \notin JobIds THEN Reply(t, NotFound(t, "cancel", job_id))
       ELSE IF ~CancelAllowed(jobs[job_id].status)
       THEN Reply(t, Response(t, "cancel", job_id, 409,
                     "Cannot cancel job in " \o jobs[job_id].status \o " status"))
       ELSE /\ thr' = [thr EXCEPT ![t] = [op |-> "cancel", pc |-> "commit",
                                          job |-> job_id, loaded |-> jobs[job_id]]]
            /\ out' = Silent
            /\ UNCHANGED <<jobs, versions, store, queue, runs, revoked, njobs, ntrace>>

\* lines 754-763: revoke(str(job_id)), status = CANCELED, db.commit()
CancelCommit(t) ==
    /\ thr[t].op = "cancel" /\ thr[t].pc = "commit"
    /\ revoked' = revoked \cup {thr[t].job}
    /\ jobs' = [jobs EXCEPT ![thr[t].job] =
                    Flush(@, thr[t].loaded, CancelUpdate(thr[t].loaded))]
    /\ out' = Response(t, "cancel", thr[t].job, 200, "CANCELED")
    /\ thr' = [thr EXCEPT ![t] = Idle]
    /\ UNCHANGED <<versions, store, queue, runs, nreq, njobs, ntrace>>

\* --------------------------------------------------------------- retry_job
\* a guard that also lets a canceled job be retried
RetryAllowedCanceled(status) == status \in {"FAILED", "CANCELED"}

\* line 784
RetryAllowed(status) == status = "FAILED"

\* a reset that forgets the error fields
RetryUpdateKeepsError(loaded, trace_id) ==
    [loaded EXCEPT !.status = "QUEUED", !.stage = NULL, !.progress = 0,
                   !.trace_id = trace_id]

\* lines 800-807
RetryUpdate(loaded, trace_id) ==
    [loaded EXCEPT !.status = "QUEUED", !.stage = NULL, !.progress = 0,
                   !.error_code = NULL, !.error_message = NULL,
                   !.trace_id = trace_id]

\* lines 817-819, written by the db.commit() of line 820
RetryQueueError(row) ==
    [row EXCEPT !.status = "FAILED", !.error_code = "QUEUE_ERROR",
                !.error_message = "send_task failed"]

\* lines 775-795: parse the id, load the job, check status and input video
RetryJob(t, job_id) ==
    /\ CanStart(t)
    /\ nreq' = nreq + 1
    /\ IF ~IsUuid(job_id) THEN Reply(t, InvalidId(t, "retry", job_id))
       ELSE IF job_id \notin JobIds THEN Reply(t, NotFound(t, "retry", job_id))
       ELSE IF ~RetryAllowed(jobs[job_id].status)
       THEN Reply(t, Response(t, "retry", job_id, 409,
                     "Cannot retry job in " \o jobs[job_id].status \o " status"))
       ELSE IF jobs[job_id].input_video_uri = NULL
       THEN Reply(t, Response(t, "retry", job_id, 400,
                     "Cannot retry job: input video not found"))
       ELSE /\ thr' = [thr EXCEPT ![t] = [op |-> "retry", pc |-> "commit",
                                          job |-> job_id, loaded |-> jobs[job_id]]]
            /\ out' = Silent
            /\ UNCHANGED <<jobs, versions, store, queue, runs, revoked, njobs, ntrace>>

\* lines 797-808: new trace id, reset of the job, db.commit()
RetryCommit(t) ==
    /\ thr[t].op = "retry" /\ thr[t].pc = "commit"
    /\ ntrace' = ntrace + 1
    /\ LET trace_id == TraceUuid(ntrace + 1)
       IN /\ jobs' = [jobs EXCEPT ![thr[t].job] =
                        Flush(@, thr[t].loaded, RetryUpdate(thr[t].loaded, trace_id))]
          /\ thr' = [thr EXCEPT ![t] = [op |-> "retry", pc |-> "dispatch",
                                        job |-> thr[t].job, trace_id |-> trace_id,
                                        loaded |-> thr[t].loaded]]
    /\ out' = Silent
    /\ UNCHANGED <<versions, store, queue, runs, revoked, nreq, njobs>>

\* lines 810-830: send_task, and on failure the FAILED commit and the 500
RetryDispatch(t, send_ok) ==
    /\ thr[t].op = "retry" /\ thr[t].pc = "dispatch"
    /\ thr' = [thr EXCEPT ![t] = Idle]
    /\ UNCHANGED <<versions, store, runs, revoked, nreq, njobs, ntrace>>
    /\ IF send_ok
       THEN /\ queue' = queue (+) SetToBag({PipelineTask(thr[t].job)})
            /\ out' = [Response(t, "retry", thr[t].job, 200, "QUEUED")
                         EXCEPT !.trace_id = thr[t].trace_id]
            /\ UNCHANGED jobs
       ELSE /\ jobs' = [jobs EXCEPT ![thr[t].job] = RetryQueueError(@)]
            /\ out' = Response(t, "retry", thr[t].job, 500, "Failed to queue retry task")
            /\ UNCHANGED queue

\* --------------------------------------------------------- regenerate_pptx
\* line 554
RegenerateAllowed(status) == status = "SUCCEEDED"

\* a check that forgets the frames
MissingArtifactStepsOnly(row) ==
    IF row.steps_json_uri = NULL THEN "No steps available for this job" ELSE NULL

\* lines 560-564: the detail of the 400, or NULL when both references exist
MissingArtifact(row) ==
    IF row.frames_prefix_uri = NULL THEN "No frames available for this job"
    ELSE IF row.steps_json_uri = NULL THEN "No steps available for this job"
    ELSE NULL

\* an update that keeps the old trace id and progress
RegenerateUpdateStale(loaded, trace_id) ==
    [loaded EXCEPT !.status = "RUNNING", !.stage = "GENERATE_PPTX_ONLY",
                   !.error_code = NULL, !.error_message = NULL]

\* lines 569-575
RegenerateUpdate(loaded, trace_id) ==
    [loaded EXCEPT !.status = "RUNNING", !.stage = "GENERATE_PPTX_ONLY",
                   !.progress = 0, !.error_code = NULL, !.error_message = NULL,
                   !.trace_id = trace_id]

\* lines 545-564: parse the id, load the job, check status, frames and steps
RegeneratePptx(t, job_id) ==
    /\ CanStart(t)
    /\ nreq' = nreq + 1
    /\ IF ~IsUuid(job_id) THEN Reply(t, InvalidId(t, "regenerate", job_id))
       ELSE IF job_id \notin JobIds THEN Reply(t, NotFound(t, "regenerate", job_id))
       ELSE IF ~RegenerateAllowed(jobs[job_id].status)
       THEN Reply(t, Response(t, "regenerate", job_id, 400,
                     "Cannot regenerate PPTX for job in " \o jobs[job_id].status
                        \o " status"))
       ELSE IF MissingArtifact(jobs[job_id]) # NULL
       THEN Reply(t, Response(t, "regenerate", job_id, 400,
                     MissingArtifact(jobs[job_id])))
       ELSE /\ thr' = [thr EXCEPT ![t] = [op |-> "regenerate", pc |-> "commit",
                                          job |-> job_id, loaded |-> jobs[job_id]]]
            /\ out' = Silent
            /\ UNCHANGED <<jobs, versions, store, queue, runs, revoked, njobs, ntrace>>

\* lines 566-576: new trace id, RUNNING/GENERATE_PPTX_ONLY, db.commit()
RegenerateCommit(t) ==
    /\ thr[t].op = "regenerate" /\ thr[t].pc = "commit"
    /\ ntrace' = ntrace + 1
    /\ LET trace_id == TraceUuid(ntrace + 1)
       IN /\ jobs' = [jobs EXCEPT ![thr[t].job] =
                        Flush(@, thr[t].loaded,
                              RegenerateUpdate(thr[t].loaded, trace_id))]
          /\ thr' = [thr EXCEPT ![t] = [op |-> "regenerate", pc |-> "dispatch",
                                        job |-> thr[t].job, trace_id |-> trace_id,
                                        loaded |-> thr[t].loaded]]
    /\ out' = Silent
    /\ UNCHANGED <<versions, store, queue, runs, revoked, nreq, njobs>>

\* lines 578-589: send_task outside any try: a failure leaves the handler as a 500
RegenerateDispatch(t, send_ok) ==
    /\ thr[t].op = "regenerate" /\ thr[t].pc = "dispatch"
    /\ thr' = [thr EXCEPT ![t] = Idle]
    /\ UNCHANGED <<jobs, versions, store, runs, revoked, nreq, njobs, ntrace>>
    /\ IF send_ok
       THEN /\ queue' = queue (+) SetToBag({PptxTask(thr[t].job, thr[t].trace_id)})
            /\ out' = [Response(t, "regenerate", thr[t].job, 200, "RUNNING")
                         EXCEPT !.task_id = PptxTaskId(thr[t].job, thr[t].trace_id)]
       ELSE /\ out' = Response(t, "regenerate", thr[t].job, 500, "Internal Server Error")
            /\ UNCHANGED queue

\* ------------------------------------------------- step data and its schema
\* JSON values, tagged with their JSON type; a string is its sequence of
\* characters
JStr(chars) == [type |-> "string", val |-> chars]
JInt(n) == [type |-> "integer", val |-> n]
JArr(items) == [type |-> "array", val |-> items]
JObj(members) == [type |-> "object", val |-> members]

\* jsonschema's "type" keyword ("number" admits integers)
IsType(v, ty) ==
    IF ty = "number" THEN v.type \in {"integer", "number"} ELSE v.type = ty

\* "required": [...]
Required(v, names) == names \subseteq DOMAIN v.val

\* a member that is present has the given type
TypedIf(v, name, ty) == name \in DOMAIN v.val => IsType(v.val[name], ty)

Digits == {"0", "1", "2", "3", "4", "5", "6", "7", "8", "9"}

\* re.search("^[0-9]{2}:[0-9]{2}$", s): $ also matches before a final newline
MatchesMMSS(chars) ==
    /\ Len(chars) = 5 \/ (Len(chars) = 6 /\ chars[6] = "\n")
    /\ chars[1] \in Digits /\ chars[2] \in Digits
    /\ chars[3] = ":"
    /\ chars[4] \in Digits /\ chars[5] \in Digits

\* {"type": "string", "pattern": "^[0-9]{2}:[0-9]{2}$"} on a present member
TimecodeIf(v, name) ==
    name \in DOMAIN v.val =>
        /\ IsType(v.val[name], "string")
        /\ MatchesMMSS(v.val[name].val)

\* STEPS_JSON_SCHEMA["properties"]["steps"]["items"]
ValidStep(v) ==
    /\ IsType(v, "object")
    /\ Required(v, {"no", "start", "end", "shot", "frame_file", "telop",
                    "action", "target", "narration"})
    /\ "no" \in DOMAIN v.val =>
          IsType(v.val["no"], "integer") /\ v.val["no"].val >= 1
    /\ TimecodeIf(v, "start") /\ TimecodeIf(v, "end") /\ TimecodeIf(v, "shot")
    /\ TypedIf(v, "frame_file", "string")
    /\ "telop" \in DOMAIN v.val =>
          IsType(v.val["telop"], "string") /\ Len(v.val["telop"].val) <= 30
    /\ TypedIf(v, "action", "string") /\ TypedIf(v, "target", "string")
    /\ TypedIf(v, "narration", "string") /\ TypedIf(v, "caution", "string")

\* STEPS_JSON_SCHEMA["properties"]["source"]
ValidSource(v) ==
    /\ IsType(v, "object")
    /\ Required(v, {"video_duration_sec", "video_fps", "resolution"})
    /\ TypedIf(v, "video_duration_sec", "number") /\ TypedIf(v, "video_fps", "number")
    /\ TypedIf(v, "resolution", "string")
    /\ TypedIf(v, "transcription_provider", "string")
    /\ TypedIf(v, "llm_provider", "string")

\* {"type": "array", "items": ...} on a present member: the member is an
\* array, and these are the items the "items" schema applies to
ArrayIf(v, name) == name \in DOMAIN v.val => IsType(v.val[name], "array")
ItemsOf(v, name) ==
    IF name \in DOMAIN v.val /\ IsType(v.val[name], "array")
    THEN {v.val[name].val[i] : i \in 1..Len(v.val[name].val)}
    ELSE {}

ValidMistake(v) ==
    /\ IsType(v, "object") /\ Required(v, {"mistake", "fix"})
    /\ TypedIf(v, "mistake", "string") /\ TypedIf(v, "fix", "string")

ValidQuiz(v) ==
    /\ IsType(v, "object") /\ Required(v, {"type", "q", "a"})
    /\ "type" \in DOMAIN v.val =>
          /\ IsType(v.val["type"], "string")
          /\ v.val["type"].val \in {<<"c","h","o","i","c","e">>, <<"t","e","x","t">>}
    /\ TypedIf(v, "q", "string") /\ TypedIf(v, "a", "string")
    /\ ArrayIf(v, "choices")
    /\ \A c \in ItemsOf(v, "choices") : IsType(c, "string")

\* a schema whose "required" list lacks "steps"
ValidStepsJsonStepsOptional(v) ==
    /\ IsType(v, "object")
    /\ Required(v, {"title", "goal", "language", "source"})
    /\ ArrayIf(v, "steps") /\ \A x \in ItemsOf(v, "steps") : ValidStep(x)

\* validate_steps_json(data): jsonschema.validate(data, STEPS_JSON_SCHEMA)
\* does not raise
ValidStepsJson(v) ==
    /\ IsType(v, "object")
    /\ Required(v, {"title", "goal", "language", "source", "steps"})
    /\ TypedIf(v, "title", "string") /\ TypedIf(v, "goal", "string")
    /\ TypedIf(v, "language", "string")
    /\ "source" \in DOMAIN v.val => ValidSource(v.val["source"])
    /\ ArrayIf(v, "steps") /\ \A x \in ItemsOf(v, "steps") : ValidStep(x)
    /\ ArrayIf(v, "common_mistakes")
    /\ \A x \in ItemsOf(v, "common_mistakes") : ValidMistake(x)
    /\ ArrayIf(v, "quiz") /\ \A x \in ItemsOf(v, "quiz") : ValidQuiz(x)

\* the documents of the model; a name stands for the JSON value StepsDoc gives it
T0000 == <<"0", "0", ":", "0", "0">>
T0010 == <<"0", "0", ":", "1", "0">>
T0020 == <<"0", "0", ":", "2", "0">>

SourceBlock ==
    JObj([video_duration_sec |-> JInt(60), video_fps |-> JInt(30),
          resolution |-> JStr(<<"1", "x", "1">>)])

StepWith(start) ==
    JObj([no |-> JInt(1), start |-> JStr(start), end |-> JStr(T0020),
          shot |-> JStr(T0010), frame_file |-> JStr(<<"f">>),
          telop |-> JStr(<<"t">>), action |-> JStr(<<"a">>),
          target |-> JStr(<<"u">>), narration |-> JStr(<<"n">>)])

DocWith(title, steps) ==
    JObj([title |-> JStr(title), goal |-> JStr(<<"g">>), language |-> JStr(<<"j", "a">>),
          source |-> SourceBlock, steps |-> JArr(steps)])

StepsDoc(name) ==
    CASE name = "S1" -> DocWith(<<"1">>, <<StepWith(T0000)>>)
      [] name = "S2" -> DocWith(<<"2">>, <<StepWith(T0000)>>)
      [] name = "S3" -> DocWith(<<"3">>, <<>>)
      [] name = "NoSteps" ->
            JObj([title |-> JStr(<<"2">>), goal |-> JStr(<<"g">>),
                  language |-> JStr(<<"j", "a">>), source |-> SourceBlock])
      [] name = "BadStart" ->
            DocWith(<<"2">>, <<StepWith(<<"i", "n", "v", "a", "l", "i", "d">>)>>)
      [] name = "NotADict" -> JArr(<<>>)

\* request bodies offered to update_job_steps, and the pipeline's document
EditDocs == {"S2", "S3", "NoSteps", "BadStart", "NotADict"}
GeneratedDocs == {"S1"}

\* ------------------------------------------------------------ version ledger
StepsVersion(job_id, version, steps_json, edit_source, edit_note) ==
    [job_id |-> job_id, version |-> version, steps_json |-> steps_json,
     edit_source |-> edit_source, edit_note |-> edit_note]

\* db.query(StepsVersion).filter(StepsVersion.job_id == job_uuid)
VersionsOf(job_id) == SelectSeq(versions, LAMBDA r : r.job_id = job_id)

\* a table without the unique index
UniqueViolationNever(row) == FALSE

\* unique index ix_steps_versions_job_version on (job_id, version)
UniqueViolation(row) ==
    \E i \in 1..Len(versions) :
        versions[i].job_id = row.job_id /\ versions[i].version = row.version

\* -------------------------------------------------------- update_job_steps
\* a guard that lets a job that is being processed be edited
EditAllowedRunning(status) == status \in {"SUCCEEDED", "RUNNING"}

\* line 478
EditAllowed(status) == status = "SUCCEEDED"

\* lines 494-495
NewVersion(job_id) == Len(VersionsOf(job_id)) + 1

\* an update that advances current_steps_version one too far
EditUpdateOffByOne(loaded, new_version, steps_key) ==
    [loaded EXCEPT !.current_steps_version = new_version + 1,
                   !.steps_json_uri = S3Uri(steps_key)]

\* an update that leaves current_steps_version behind
EditUpdateUriOnly(loaded, new_version, steps_key) ==
    [loaded EXCEPT !.steps_json_uri = S3Uri(steps_key)]

\* lines 508 and 519
EditUpdate(loaded, new_version, steps_key) ==
    [loaded EXCEPT !.current_steps_version = new_version,
                   !.steps_json_uri = S3Uri(steps_key)]

\* lines 469-491: body model, id, load, status check, schema validation
UpdateJobSteps(t, job_id, body) ==
    /\ CanStart(t)
    /\ nreq' = nreq + 1
    /\ IF ~IsType(StepsDoc(body), "object")
       THEN Reply(t, Response(t, "edit", job_id, 422, "steps_json: not a dict"))
       ELSE IF ~IsUuid(job_id) THEN Reply(t, InvalidId(t, "edit", job_id))
       ELSE IF job_id \notin JobIds THEN Reply(t, NotFound(t, "edit", job_id))
       ELSE IF ~EditAllowed(jobs[job_id].status)
       THEN Reply(t, Response(t, "edit", job_id, 400,
                     "Cannot edit steps for job in " \o jobs[job_id].status
                        \o " status"))
       ELSE IF ~ValidStepsJson(StepsDoc(body))
       THEN Reply(t, Response(t, "edit", job_id, 400, "STEPS_SCHEMA_INVALID"))
       ELSE /\ thr' = [thr EXCEPT ![t] = [op |-> "edit", pc |-> "count",
                                          job |-> job_id, loaded |-> jobs[job_id],
                                          steps_json |-> body, new_version |-> 0]]
            /\ out' = Silent
            /\ UNCHANGED <<jobs, versions, store, queue, runs, revoked, njobs, ntrace>>

\* lines 493-509: count the versions, StepsVersion(...), db.add
EditCount(t) ==
    /\ thr[t].op = "edit" /\ thr[t].pc = "count"
    /\ thr' = [thr EXCEPT ![t].pc = "upload",
                          ![t].new_version = NewVersion(thr[t].job)]
    /\ out' = Silent
    /\ UNCHANGED <<jobs, versions, store, queue, runs, revoked, nreq, njobs, ntrace>>

\* a failure branch that commits the pending current_steps_version instead
\* of rolling it back
EditUploadKeepsPending(t, upload_ok) ==
    /\ thr[t].op = "edit" /\ thr[t].pc = "upload"
    /\ UNCHANGED <<versions, queue, runs, revoked, nreq, njobs, ntrace>>
    /\ IF upload_ok
       THEN /\ store' = (StepsKey(thr[t].job, thr[t].new_version) :> thr[t].steps_json)
                           @@ store
            /\ thr' = [thr EXCEPT ![t].pc = "commit"]
            /\ out' = Silent
            /\ UNCHANGED jobs
       ELSE /\ out' = Response(t, "edit", thr[t].job, 500, "Failed to save steps")
            /\ thr' = [thr EXCEPT ![t] = Idle]
            /\ jobs' = [jobs EXCEPT ![thr[t].job].current_steps_version =
                                       thr[t].new_version]
            /\ UNCHANGED store

\* lines 511-523: upload of the snapshot; on failure db.rollback() and a 500
EditUpload(t, upload_ok) ==
    /\ thr[t].op = "edit" /\ thr[t].pc = "upload"
    /\ UNCHANGED <<jobs, versions, queue, runs, revoked, nreq, njobs, ntrace>>
    /\ IF upload_ok
       THEN /\ store' = (StepsKey(thr[t].job, thr[t].new_version) :> thr[t].steps_json)
                           @@ store
            /\ thr' = [thr EXCEPT ![t].pc = "commit"]
            /\ out' = Silent
       ELSE /\ out' = Response(t, "edit", thr[t].job, 500, "Failed to save steps")
            /\ thr' = [thr EXCEPT ![t] = Idle]
            /\ UNCHANGED store

\* a commit that rewrites the current entry instead of adding one
EditCommitInPlace(t) ==
    /\ thr[t].op = "edit" /\ thr[t].pc = "commit"
    /\ thr' = [thr EXCEPT ![t] = Idle]
    /\ UNCHANGED <<jobs, store, queue, runs, revoked, nreq, njobs, ntrace>>
    /\ versions' = [i \in 1..Len(versions) |->
                      IF /\ versions[i].job_id = thr[t].job
                         /\ versions[i].version = thr[t].loaded.current_steps_version
                      THEN [versions[i] EXCEPT !.steps_json = thr[t].steps_json,
                                               !.edit_source = "manual"]
                      ELSE versions[i]]
    /\ out' = [Response(t, "edit", thr[t].job, 200, "Steps updated")
                 EXCEPT !.version = thr[t].loaded.current_steps_version]

\* lines 525-533: db.commit() inserts the version and updates the job, or
\* fails on the unique index and writes nothing
EditCommit(t) ==
    /\ thr[t].op = "edit" /\ thr[t].pc = "commit"
    /\ thr' = [thr EXCEPT ![t] = Idle]
    /\ UNCHANGED <<store, queue, runs, revoked, nreq, njobs, ntrace>>
    /\ LET row == StepsVersion(thr[t].job, thr[t].new_version, thr[t].steps_json,
                               "manual", "note")
       IN IF UniqueViolation(row)
          THEN /\ out' = Response(t, "edit", thr[t].job, 500, "Internal Server Error")
               /\ UNCHANGED <<jobs, versions>>
          ELSE /\ versions' = Append(versions, row)
               /\ jobs' = [jobs EXCEPT ![thr[t].job] =
                              Flush(@, thr[t].loaded,
                                    EditUpdate(thr[t].loaded, thr[t].new_version,
                                               StepsKey(thr[t].job, thr[t].new_version)))]
               /\ out' = [Response(t, "edit", thr[t].job, 200, "Steps updated")
                            EXCEPT !.version = thr[t].new_version]

\* ----------------------------------------------------------- get_job_steps
\* versions a client asks for; 0 also stands for an omitted query parameter
\* (both are falsy in line 424)
RequestVersions == 0..MaxRequests

\* line 424: version or job.current_steps_version
TargetVersion(job_id, version) ==
    IF version # 0 THEN version ELSE jobs[job_id].current_steps_version

\* a query that filters on the job id only
FindVersionAny(job_id, version) ==
    SelectSeq(versions, LAMBDA r : r.job_id = job_id)

\* lines 425-429: the first row with that job id and version
FindVersion(job_id, version) ==
    SelectSeq(versions, LAMBDA r : r.job_id = job_id /\ r.version = version)

\* lines 414-456, as a function of the committed state
GetStepsResult(t, job_id, version) ==
    IF ~IsUuid(job_id) THEN InvalidId(t, "get_steps", job_id)
    ELSE IF job_id \notin JobIds THEN NotFound(t, "get_steps", job_id)
    ELSE LET found == FindVersion(job_id, TargetVersion(job_id, version))
             uri == jobs[job_id].steps_json_uri
         IN IF found # <<>>
            THEN [Response(t, "get_steps", job_id, 200, "steps") EXCEPT
                     !.version = found[1].version,
                     !.edit_source = found[1].edit_source,
                     !.steps_json = found[1].steps_json]
            ELSE IF uri = NULL
            THEN Response(t, "get_steps", job_id, 404, "Steps not yet generated")
            ELSE IF \E k \in DOMAIN store : S3Uri(k) = uri
            THEN [Response(t, "get_steps", job_id, 200, "steps") EXCEPT
                     !.version = 1, !.edit_source = "llm",
                     !.steps_json = store[CHOOSE k \in DOMAIN store : S3Uri(k) = uri]]
            ELSE Response(t, "get_steps", job_id, 500, "Failed to retrieve steps")

GetJobSteps(t, job_id, version) ==
    /\ CanStart(t)
    /\ nreq' = nreq + 1
    /\ Reply(t, GetStepsResult(t, job_id, version))

\* ---------------------------------------------------------- pipeline worker
\* app/workers/tasks.py is not among the sources; the worker follows the
\* transition table of the specification: every report is one check-then-set
\* on the job row, and a report the table does not allow is ignored.
PipelineStage(task) ==
    IF task.name = "regenerate_pptx" THEN "GENERATE_PPTX_ONLY" ELSE "INGEST"

\* a worker that reports on whatever row it finds
ReportAllowedAny(status) == TRUE

ReportAllowed(status) == status \in {"QUEUED", "RUNNING"}
SuccessAllowed(status) == status = "RUNNING"
FailureAllowed(status) == status \in {"QUEUED", "RUNNING"}

OneTask(task) == SetToBag({task})

\* a worker takes a dispatched task
WorkerTake(task) ==
    /\ BagIn(task, queue)
    /\ queue' = queue (-) OneTask(task)
    /\ runs' = runs (+) OneTask(task)
    /\ out' = Silent
    /\ UNCHANGED <<jobs, versions, store, revoked, thr, nreq, njobs, ntrace>>

\* best-effort revoke: a revoked task may be discarded before it runs or
\* terminated while it runs
WorkerRevoke(task) ==
    /\ task.task_id \in revoked
    /\ \/ BagIn(task, queue) /\ queue' = queue (-) OneTask(task) /\ UNCHANGED runs
       \/ BagIn(task, runs) /\ runs' = runs (-) OneTask(task) /\ UNCHANGED queue
    /\ out' = Silent
    /\ UNCHANGED <<jobs, versions, store, revoked, thr, nreq, njobs, ntrace>>

\* pipeline reports stage/progress: QUEUED or RUNNING -> RUNNING
WorkerReport(task) ==
    /\ BagIn(task, runs)
    /\ task.job \in JobIds
    /\ ReportAllowed(jobs[task.job].status)
    /\ jobs' = [jobs EXCEPT ![task.job].status = "RUNNING",
                            ![task.job].stage = PipelineStage(task),
                            ![task.job].progress = 50]
    /\ out' = Silent
    /\ UNCHANGED <<versions, store, queue, runs, revoked, thr, nreq, njobs, ntrace>>

\* pipeline reports success: RUNNING -> SUCCEEDED, output references, and for
\* the full pipeline a ledger entry with edit_source "llm"
WorkerSucceed(task, doc) ==
    /\ BagIn(task, runs)
    /\ runs' = runs (-) OneTask(task)
    /\ out' = Silent
    /\ UNCHANGED <<queue, revoked, thr, nreq, njobs, ntrace>>
    /\ IF task.job \in JobIds /\ SuccessAllowed(jobs[task.job].status)
       THEN LET j == task.job
                v == Len(VersionsOf(j)) + 1
                pptx_key == "jobs/" \o j \o "/manual.pptx"
            IN IF task.name = "regenerate_pptx"
               THEN /\ jobs' = [jobs EXCEPT ![j].status = "SUCCEEDED",
                                            ![j].stage = NULL,
                                            ![j].progress = 100,
                                            ![j].pptx_uri = S3Uri(pptx_key)]
                    /\ store' = (pptx_key :> "pptx") @@ store
                    /\ UNCHANGED versions
               ELSE /\ jobs' = [jobs EXCEPT ![j].status = "SUCCEEDED",
                                   ![j].stage = NULL,
                                   ![j].progress = 100,
                                   ![j].audio_uri = S3Uri("jobs/" \o j \o "/audio.wav"),
                                   ![j].transcript_uri =
                                        S3Uri("jobs/" \o j \o "/transcript.json"),
                                   ![j].frames_prefix_uri =
                                        S3Uri("jobs/" \o j \o "/frames/"),
                                   ![j].steps_json_uri = S3Uri(StepsKey(j, v)),
                                   ![j].pptx_uri = S3Uri(pptx_key),
                                   ![j].current_steps_version = v]
                    /\ versions' = Append(versions,
                           StepsVersion(j, v, doc, "llm", "Initial generation"))
                    /\ store' = (StepsKey(j, v) :> doc) @@ (pptx_key :> "pptx") @@ store
       ELSE UNCHANGED <<jobs, versions, store>>

\* pipeline reports failure: QUEUED or RUNNING -> FAILED with the error fields
WorkerFail(task) ==
    /\ BagIn(task, runs)
    /\ runs' = runs (-) OneTask(task)
    /\ out' = Silent
    /\ UNCHANGED <<versions, store, queue, revoked, thr, nreq, njobs, ntrace>>
    /\ IF task.job \in JobIds /\ FailureAllowed(jobs[task.job].status)
       THEN jobs' = [jobs EXCEPT ![task.job].status = "FAILED",
                                 ![task.job].stage = NULL,
                                 ![task.job].error_code = "INTERNAL_ERROR",
                                 ![task.job].error_message = "pipeline failed"]
       ELSE UNCHANGED jobs

\* the tasks that can exist
Tasks == BagToSet(queue) \cup BagToSet(runs)

\* ------------------------------------------------- databases of the tests
\* the job rows the test suite commits before it calls a handler
\* (tests/conftest.py, tests/test_jobs_api.py, tests/test_pptx_regeneration.py)
BareJob(status) == [NewJob(NULL) EXCEPT !.status = status]

SucceededJob ==
    [NewJob(NULL) EXCEPT
        !.status = "SUCCEEDED", !.progress = 100,
        !.steps_json_uri = "s3://test-bucket/jobs/test/steps.json",
        !.pptx_uri = "s3://test-bucket/jobs/test/output.pptx",
        !.frames_prefix_uri = "s3://test-bucket/jobs/test/frames/"]

FailedJobWithInput ==
    [NewJob(NULL) EXCEPT
        !.status = "FAILED", !.input_video_uri = "s3://bucket/jobs/test/input.mp4",
        !.error_code = "TEST_ERROR", !.error_message = "Test error"]

FixtureJobs ==
    {BareJob(st) : st \in JobStatus} \cup
    {SucceededJob,
     [SucceededJob EXCEPT !.frames_prefix_uri = NULL],
     [SucceededJob EXCEPT !.steps_json_uri = NULL],
     FailedJobWithInput}

\* succeeded_job comes with its first ledger row
FixtureVersions(row) ==
    IF row.status = "SUCCEEDED" /\ row.pptx_uri # NULL
    THEN <<StepsVersion(FixtureId, 1, "S1", "llm", "Initial generation")>>
    ELSE <<>>

FixtureInit ==
    /\ \E row \in FixtureJobs :
          /\ jobs = (FixtureId :> row)
          /\ versions = FixtureVersions(row)
    /\ store = <<>>
    /\ queue = EmptyBag
    /\ runs = EmptyBag
    /\ revoked = {}
    /\ thr = [t \in Threads |-> Idle]
    /\ out = Silent
    /\ nreq = 0
    /\ njobs = 0
    /\ ntrace = 0


Next ==
    \/ \E t \in Threads, file \in Files, ok \in BOOLEAN : CreateJob(t, file, ok)
    \/ \E t \in Threads : CreateCommit(t)
    \/ \E t \in Threads, ok \in BOOLEAN : CreateDispatch(t, ok)
    \/ \E t \in Threads, ok \in BOOLEAN : CreateCleanup(t, ok)
    \/ \E t \in Threads, j \in RequestIds : CancelJob(t, j)
    \/ \E t \in Threads : CancelCommit(t)
    \/ \E t \in Threads, j \in RequestIds : RetryJob(t, j)
    \/ \E t \in Threads : RetryCommit(t)
    \/ \E t \in Threads, ok \in BOOLEAN : RetryDispatch(t, ok)
    \/ \E t \in Threads, j \in RequestIds : RegeneratePptx(t, j)
    \/ \E t \in Threads : RegenerateCommit(t)
    \/ \E t \in Threads, ok \in BOOLEAN : RegenerateDispatch(t, ok)
    \/ \E t \in Threads, j \in RequestIds, body \in EditDocs : UpdateJobSteps(t, j, body)
    \/ \E t \in Threads : EditCount(t)
    \/ \E t \in Threads, ok \in BOOLEAN : EditUpload(t, ok)
    \/ \E t \in Threads : EditCommit(t)
    \/ \E t \in Threads, j \in RequestIds, v \in RequestVersions : GetJobSteps(t, j, v)
    \/ \E task \in Tasks : WorkerTake(task)
    \/ \E task \in Tasks : WorkerRevoke(task)
    \/ \E task \in Tasks : WorkerReport(task)
    \/ \E task \in Tasks, doc \in GeneratedDocs : WorkerSucceed(task, doc)
    \/ \E task \in Tasks : WorkerFail(task)

Spec == Init /\ [][Next]_vars

\* the handlers over a database prepared like the tests prepare it
FixtureSpec == FixtureInit /\ [][Next]_vars
\* ------------------------------------------------------- create_batch_jobs
\* len(video_files) > 10
max_batch_files == 10

\* the lengths of video_files a client sends: none, a few, and one too many
BatchSizes == (0..MaxBatchLen) \cup {max_batch_files + 1}

\* the entries of "created" and of "errors"; a file is named by its position
CreatedEntry(job_id, idx) == [job_id |-> job_id, file |-> idx, status |-> "QUEUED"]
ErrorEntry(idx, error) == [file |-> idx, error |-> error]

\* lines 343-351: the response body and its status code
BatchResponse(t, created, errors) ==
    [Response(t, "batch", NULL, IF created # <<>> THEN 201 ELSE 400, NULL)
        EXCEPT !.created = created, !.errors = errors]

\* a loop that gives up at the first file that fails
BatchAdvanceStopsOnError(t, rec) ==
    IF rec.idx = rec.n \/ rec.errors # <<>>
    THEN /\ thr' = [thr EXCEPT ![t] = Idle]
         /\ out' = BatchResponse(t, rec.created, rec.errors)
    ELSE /\ thr' = [thr EXCEPT ![t] = [rec EXCEPT !.idx = @ + 1, !.pc = "file",
                                                  !.job = NULL, !.pending = NULL]]
         /\ out' = Silent

\* the end of one iteration of the loop: the next file, or the response.
\* rec is the handler's frame after the iteration; the local video_key stays
\* bound from one iteration to the next
BatchAdvance(t, rec) ==
    IF rec.idx = rec.n
    THEN /\ thr' = [thr EXCEPT ![t] = Idle]
         /\ out' = BatchResponse(t, rec.created, rec.errors)
    ELSE /\ thr' = [thr EXCEPT ![t] = [rec EXCEPT !.idx = @ + 1, !.pc = "file",
                                                  !.job = NULL, !.pending = NULL]]
         /\ out' = Silent

\* lines 232-239: the two checks on the list, then the empty result lists
BatchStart(t, n) ==
    /\ CanStart(t)
    /\ nreq < MaxBatches
    /\ nreq' = nreq + 1
    /\ UNCHANGED <<jobs, versions, store, queue, runs, revoked, njobs, ntrace>>
    /\ IF n = 0
       THEN /\ out' = Response(t, "batch", NULL, 400, "No video files provided")
            /\ UNCHANGED thr
       ELSE IF n > max_batch_files
       THEN /\ out' = Response(t, "batch", NULL, 400, "Maximum 10 files per batch")
            /\ UNCHANGED thr
       ELSE /\ thr' = [thr EXCEPT ![t] =
                 [op |-> "batch", pc |-> "file", n |-> n, idx |-> 1,
                  created |-> <<>>, errors |-> <<>>, video_key |-> NULL,
                  job |-> NULL, pending |-> NULL, error |-> NULL]]
            /\ out' = Silent

\* lines 243-293 for the file at position idx: validation, Job(...), db.add,
\* upload; an exception of seek()/tell() or of the upload reaches line 328
BatchFile(t, file, read_ok, upload_ok) ==
    /\ thr[t].op = "batch" /\ thr[t].pc = "file"
    /\ UNCHANGED <<jobs, versions, queue, runs, revoked, nreq>>
    /\ LET rec == thr[t]
       IN IF file.ext \notin ALLOWED_VIDEO_EXTENSIONS
          THEN /\ BatchAdvance(t, [rec EXCEPT !.errors =
                      Append(@, ErrorEntry(rec.idx, "Unsupported video format"))])
               /\ UNCHANGED <<store, njobs, ntrace>>
          ELSE IF ~read_ok
          THEN /\ thr' = [thr EXCEPT ![t].pc = "except", ![t].error = "seek failed"]
               /\ out' = Silent
               /\ ntrace' = ntrace + 1
               /\ UNCHANGED <<store, njobs>>
          ELSE IF file.size_mb > max_video_size_mb
          THEN /\ BatchAdvance(t, [rec EXCEPT !.errors =
                      Append(@, ErrorEntry(rec.idx, "File too large"))])
               /\ ntrace' = ntrace + 1
               /\ UNCHANGED <<store, njobs>>
          ELSE /\ njobs' = njobs + 1
               /\ ntrace' = ntrace + 1
               /\ out' = Silent
               /\ LET job_id == JobUuid(njobs + 1)
                      video_key == VideoKey(job_id, file.ext)
                  IN IF upload_ok
                     THEN /\ store' = (video_key :> "video") @@ store
                          /\ thr' = [thr EXCEPT ![t] = [rec EXCEPT
                                !.pc = "send", !.job = job_id,
                                !.video_key = video_key,
                                !.pending = [NewJob(TraceUuid(ntrace + 1)) EXCEPT
                                    !.input_video_uri = S3Uri(video_key)]]]
                     ELSE /\ thr' = [thr EXCEPT ![t] = [rec EXCEPT
                                !.pc = "except", !.job = job_id,
                                !.video_key = video_key,
                                !.error = "upload failed"]]
                          /\ UNCHANGED store

\* lines 296-303: send_task before the commit; on failure db.rollback()
\* discards the pending Job
BatchSend(t, send_ok) ==
    /\ thr[t].op = "batch" /\ thr[t].pc = "send"
    /\ out' = Silent
    /\ UNCHANGED <<jobs, versions, store, runs, revoked, nreq, njobs, ntrace>>
    /\ IF send_ok
       THEN /\ queue' = queue (+) SetToBag({PipelineTask(thr[t].job)})
            /\ thr' = [thr EXCEPT ![t].pc = "commit"]
       ELSE /\ thr' = [thr EXCEPT ![t].pc = "except", ![t].pending = NULL,
                                  ![t].error = "Failed to queue job"]
            /\ UNCHANGED queue

\* a cleanup that deletes nothing
BatchCleanupKeepsVideo(t, delete_ok) ==
    /\ thr[t].op = "batch" /\ thr[t].pc = "except"
    /\ store' = store
    /\ BatchAdvance(t, [thr[t] EXCEPT !.errors =
           Append(@, ErrorEntry(thr[t].idx, thr[t].error)), !.error = NULL])
    /\ UNCHANGED <<jobs, versions, queue, runs, revoked, nreq, njobs, ntrace>>

\* lines 304-314 and 330-341: the rollback is done; best-effort delete of the
\* key the local video_key holds (if it is bound), then the entry in errors
BatchCleanup(t, delete_ok) ==
    /\ thr[t].op = "batch" /\ thr[t].pc = "except"
    /\ store' = IF delete_ok /\ thr[t].video_key # NULL
                THEN DropKey(store, thr[t].video_key) ELSE store
    /\ BatchAdvance(t, [thr[t] EXCEPT !.errors =
           Append(@, ErrorEntry(thr[t].idx, thr[t].error)), !.error = NULL])
    /\ UNCHANGED <<jobs, versions, queue, runs, revoked, nreq, njobs, ntrace>>

\* lines 316-330: db.commit() inserts the row, then the entry in created; a
\* commit that raises reaches line 328, where db.rollback() drops the Job
BatchCommit(t, commit_ok) ==
    /\ thr[t].op = "batch" /\ thr[t].pc = "commit"
    /\ UNCHANGED <<versions, store, queue, runs, revoked, nreq, njobs, ntrace>>
    /\ IF commit_ok
       THEN /\ jobs' = (thr[t].job :> thr[t].pending) @@ jobs
            /\ BatchAdvance(t, [thr[t] EXCEPT !.created =
                   Append(@, CreatedEntry(thr[t].job, thr[t].idx))])
       ELSE /\ thr' = [thr EXCEPT ![t].pc = "except", ![t].pending = NULL,
                                  ![t].error = "commit failed"]
            /\ out' = Silent
            /\ UNCHANGED jobs

BatchNext ==
    \E t \in Threads :
        \/ \E n \in BatchSizes : BatchStart(t, n)
        \/ \E file \in Files, read_ok \in BOOLEAN, upload_ok \in BOOLEAN :
              BatchFile(t, file, read_ok, upload_ok)
        \/ \E send_ok \in BOOLEAN : BatchSend(t, send_ok)
        \/ \E delete_ok \in BOOLEAN : BatchCleanup(t, delete_ok)
        \/ \E commit_ok \in BOOLEAN : BatchCommit(t, commit_ok)

\* the batch handler, served to concurrent clients over an empty database
BatchSpec == Init /\ [][BatchNext]_vars
\* both creation handlers, served side by side over an empty database
CreationNext ==
    \/ \E t \in Threads, file \in Files, ok \in BOOLEAN : CreateJob(t, file, ok)
    \/ \E t \in Threads : CreateCommit(t)
    \/ \E t \in Threads, ok \in BOOLEAN : CreateDispatch(t, ok)
    \/ \E t \in Threads, ok \in BOOLEAN : CreateCleanup(t, ok)
    \/ BatchNext

CreationSpec == Init /\ [][CreationNext]_vars
\* ---------------------------------------------------------------- list_jobs
\* str.lower() on the letters of the strings used here
Lower(c) == IF c = "A" THEN "a" ELSE IF c = "B" THEN "b" ELSE c

\* SQL LIKE on lower-cased operands (ILIKE): "%" matches any run of
\* characters, "_" matches any one character
RECURSIVE LikeMatch(_, _)
LikeMatch(str, pattern) ==
    IF pattern = <<>> THEN str = <<>>
    ELSE IF Head(pattern) = "%"
    THEN \/ LikeMatch(str, Tail(pattern))
         \/ str # <<>> /\ LikeMatch(Tail(str), pattern)
    ELSE IF Head(pattern) = "_"
    THEN str # <<>> /\ LikeMatch(Tail(str), Tail(pattern))
    ELSE /\ str # <<>>
         /\ Lower(Head(str)) = Lower(Head(pattern))
         /\ LikeMatch(Tail(str), Tail(pattern))

\* a text that is None / NULL, among texts that are sequences of characters
NullText == <<NULL>>

\* column.ilike(pattern) in a WHERE clause: a NULL column does not match
ILike(column, pattern) == column # NullText /\ LikeMatch(column, pattern)

\* lines 186-193: f"%{q}%" against title and goal
SearchMatches(row, q) ==
    LET search_pattern == <<"%">> \o q \o <<"%">>
    IN ILike(row.title, search_pattern) \/ ILike(row.goal, search_pattern)

\* str.upper() on the status strings a client sends
Upper(status) == IF status = "queued" THEN "QUEUED" ELSE status

\* titles, goals and statuses of the rows, and the query strings
ListTitles == {NullText, <<"a", "b">>}
ListGoals == {NullText, <<"B", "_">>}
ListStatuses == {"QUEUED", "FAILED"}
ListRows == [status : ListStatuses, title : ListTitles, goal : ListGoals]
StatusParams == {NULL, "", "queued", "bogus"}
SearchParams == {NullText, <<>>, <<"b">>, <<"A", "B">>, <<"_">>}
SortParams == {"created_at", "-created_at"}
ListQueries ==
    [status : StatusParams, q : SearchParams, page : 1..MaxPage,
     page_size : 1..MaxPageSize, sort : SortParams]

\* the ids of the rows in the order of their created_at: the n-th row
\* committed has the n-th timestamp
ByCreatedAt == [n \in 1..Cardinality(JobIds) |-> JobUuid(n)]

Reverse(seq) == [i \in 1..Len(seq) |-> seq[Len(seq) + 1 - i]]

\* lines 171-214: the filtered query, ordered, and its count
ListSelection(query) ==
    LET by_status(j) ==
            query.status \in {NULL, ""} \/ jobs[j].status = Upper(query.status)
        by_search(j) ==
            query.q \in {NullText, <<>>} \/ SearchMatches(jobs[j], query.q)
        ascending == SelectSeq(ByCreatedAt, LAMBDA j : by_status(j) /\ by_search(j))
    IN IF query.sort = "-created_at" THEN Reverse(ascending) ELSE ascending

\* query.offset(offset).limit(page_size).all()
OffsetLimit(seq, offset, limit) ==
    SubSeq(seq, offset + 1, IF offset + limit < Len(seq) THEN offset + limit ELSE Len(seq))

ListResult(query) ==
    IF query.status \notin {NULL, ""} /\ Upper(query.status) \notin JobStatus
    THEN [op |-> "list", request |-> query, code |-> 400, detail |-> "Invalid status"]
    ELSE LET selection == ListSelection(query)
             total == Len(selection)
             offset == (query.page - 1) * query.page_size
         IN [op |-> "list", request |-> query, code |-> 200,
             items |-> OffsetLimit(selection, offset, query.page_size),
             total |-> total, page |-> query.page, page_size |-> query.page_size,
             total_pages |-> IF total > 0
                             THEN (total + query.page_size - 1) \div query.page_size
                             ELSE 0]

\* GET /jobs: a read-only request, answered in one step
ListJobs(query) ==
    /\ nreq < MaxListRequests
    /\ nreq' = nreq + 1
    /\ out' = ListResult(query)
    /\ UNCHANGED <<jobs, versions, store, queue, runs, revoked, thr, njobs, ntrace>>

\* a jobs table of up to MaxListJobs rows, committed one after the other
ListInit ==
    /\ \E n \in 0..MaxListJobs : \E rows \in [1..n -> ListRows] :
          jobs = [j \in {JobUuid(i) : i \in 1..n} |->
                     rows[CHOOSE i \in 1..n : JobUuid(i) = j]]
    /\ versions = <<>> /\ store = <<>>
    /\ queue = EmptyBag /\ runs = EmptyBag /\ revoked = {}
    /\ thr = [t \in Threads |-> Idle]
    /\ out = Silent
    /\ nreq = 0 /\ njobs = 0 /\ ntrace = 0

ListNext == \E query \in ListQueries : ListJobs(query)

ListSpec == ListInit /\ [][ListNext]_vars
\* --------------------------------------------------- validate_steps_json
\* a step with the three timestamps given
StepAt(start, end, shot) ==
    JObj([no |-> JInt(2), start |-> JStr(start), end |-> JStr(end),
          shot |-> JStr(shot), frame_file |-> JStr(<<"f">>),
          telop |-> JStr(<<"t">>), action |-> JStr(<<"a">>),
          target |-> JStr(<<"u">>), narration |-> JStr(<<"n">>)])

\* timestamps a client writes into a step: MM:SS, HH:MM:SS, M:SS, MM:SS with
\* a final newline, digits without a colon, and letters
Timecodes ==
    {T0010,
     <<"0", "1", ":", "0", "0", ":", "1", "0">>,
     <<"1", ":", "0", "0">>,
     <<"0", "0", ":", "1", "0", "\n">>,
     <<"0", "0", "1", "0">>,
     <<"a", "b", ":", "c", "d">>}

\* the document validate_steps_json is called with: a step that is in order,
\* followed by the step under test
TimedDoc(start, end, shot) ==
    DocWith(<<"2">>, <<StepWith(T0000), StepAt(start, end, shot)>>)

\* a document is drawn; nothing is validated yet
ValidatorInit ==
    /\ jobs = <<>> /\ versions = <<>> /\ store = <<>>
    /\ queue = EmptyBag /\ runs = EmptyBag /\ revoked = {}
    /\ thr = [t \in Threads |-> Idle]
    /\ nreq = 0 /\ njobs = 0 /\ ntrace = 0
    /\ \E start \in Timecodes, end \in Timecodes, shot \in Timecodes :
          out = [op |-> "steps_json", start |-> start, end |-> end, shot |-> shot]

\* lines 467-480: jsonschema.validate raises, or the function returns None
ValidateStepsJson ==
    /\ out.op = "steps_json"
    /\ out' = [out EXCEPT !.op = "validate_steps_json"] @@
              [raised |-> ~ValidStepsJson(TimedDoc(out.start, out.end, out.shot))]
    /\ UNCHANGED <<jobs, versions, store, queue, runs, revoked, thr, nreq, njobs, ntrace>>

ValidatorSpec == ValidatorInit /\ [][ValidateStepsJson]_vars
\* ----------------------------------------------------------- generate_steps
\* what a call of the provider gives: an exception of the provider, or a
\* text. A text is a sequence of pieces: the two markers that open a markdown
\* code block, the marker that closes one (the same three characters as the
\* second opening marker), and bodies, a body being a JSON document of the
\* model or no JSON at all
NotJson == "not json"
FenceJson == "fence json"
Fence == "fence"
ProviderFailure == [kind |-> "LLMError"]
ProviderBodies == {"S1", "BadStart", "NotADict", NotJson}
ProviderTexts ==
    {<<b>> : b \in ProviderBodies}
    \cup {<<o, b>> : o \in {FenceJson, Fence}, b \in ProviderBodies}
    \cup {<<b, Fence>> : b \in ProviderBodies}
    \cup {<<o, b, Fence>> : o \in {FenceJson, Fence}, b \in ProviderBodies}
ProviderResponses ==
    {ProviderFailure} \cup {[kind |-> "text", text |-> x] : x \in ProviderTexts}

\* lines 441-450: startswith / endswith and the slices that remove a marker
StripFences(text) ==
    LET opened == IF Head(text) \in {FenceJson, Fence} THEN Tail(text) ELSE text
    IN IF opened # <<>> /\ opened[Len(opened)] = Fence
       THEN SubSeq(opened, 1, Len(opened) - 1) ELSE opened

\* json.loads: the document the text is, if it is one body that is JSON
JsonLoads(text) == IF Len(text) = 1 /\ text[1] # NotJson THEN text[1] ELSE NotJson

\* lines 452-462: the text of the LLMValidationError, or NULL
ParseError(response) ==
    LET data == JsonLoads(StripFences(response.text))
    IN IF data = NotJson THEN "Invalid JSON"
       ELSE IF ~ValidStepsJson(StepsDoc(data)) THEN "Schema validation failed"
       ELSE NULL

\* lines 373-374: the two provider names written into the source block
WithProviders(doc) ==
    JObj([doc.val EXCEPT !["source"] =
             JObj(("transcription_provider" :> JStr(<<"w">>))
                  @@ ("llm_provider" :> JStr(<<"m">>)) @@ @.val)])

\* a loop that never takes its last attempt for the last one
LastAttemptNever(attempt, max_retries) == FALSE

\* line 382
LastAttempt(attempt, max_retries) == attempt = max_retries

\* how a call of generate_steps ended
GenerateOutcome(frame, result, doc, error) ==
    [op |-> "generate_steps", max_retries |-> frame.max_retries,
     responses |-> frame.responses, result |-> result, doc |-> doc,
     error |-> error]

NoDoc == JObj(<<>>)

\* lines 342-353: the prompt is built; range(max_retries + 1) may be empty
GenerateSteps(max_retries) ==
    /\ thr[1].op = "idle" /\ out.op = "none"
    /\ LET frame == [op |-> "generate_steps", pc |-> "attempt",
                     max_retries |-> max_retries, attempt |-> 0,
                     responses |-> <<>>, last_error |-> NULL]
       IN IF max_retries + 1 <= 0
          THEN /\ out' = GenerateOutcome(frame, "LLMError", NoDoc,
                                         "Failed to generate valid steps.json")
               /\ UNCHANGED thr
          ELSE /\ thr' = [thr EXCEPT ![1] = frame]
               /\ UNCHANGED out
    /\ UNCHANGED <<jobs, versions, store, queue, runs, revoked, nreq, njobs, ntrace>>

\* lines 354-385: one pass of the loop: the provider is called, its text is
\* parsed and validated, and the call returns, raises or goes round again
GenerateAttempt(response) ==
    /\ thr[1].op = "generate_steps"
    /\ UNCHANGED <<jobs, versions, store, queue, runs, revoked, nreq, njobs, ntrace>>
    /\ LET frame == [thr[1] EXCEPT !.responses = Append(@, response)]
       IN IF response.kind = "LLMError"
          THEN /\ out' = GenerateOutcome(frame, "LLMError", NoDoc, "provider")
               /\ thr' = [thr EXCEPT ![1] = Idle]
          ELSE IF ParseError(response) = NULL
          THEN /\ out' = GenerateOutcome(frame, "return",
                            WithProviders(StepsDoc(JsonLoads(StripFences(response.text)))),
                            NULL)
               /\ thr' = [thr EXCEPT ![1] = Idle]
          ELSE IF LastAttempt(frame.attempt, frame.max_retries)
          THEN /\ out' = GenerateOutcome(frame, "LLMValidationError", NoDoc,
                            <<ParseError(response), frame.attempt>>)
               /\ thr' = [thr EXCEPT ![1] = Idle]
          ELSE IF frame.attempt + 1 < frame.max_retries + 1
          THEN /\ thr' = [thr EXCEPT ![1] = [frame EXCEPT
                             !.attempt = @ + 1,
                             !.last_error = ParseError(response)]]
               /\ UNCHANGED out
          ELSE /\ out' = GenerateOutcome(frame, "LLMError", NoDoc,
                                         "Failed to generate valid steps.json")
               /\ thr' = [thr EXCEPT ![1] = Idle]

GenerateNext ==
    \/ \E max_retries \in (-1)..MaxRetries : GenerateSteps(max_retries)
    \/ \E response \in ProviderResponses : GenerateAttempt(response)

\* one call of LLMService.generate_steps against a provider that answers as
\* it likes
GenerateSpec == Init /\ [][GenerateNext]_vars
\* ================================================================== claims
\* what a handler's rejecting step leaves alone: both tables, the Artifact
\* Store, the broker, and the session (no further step of the request)
Untouched(t) ==
    /\ jobs' = jobs /\ versions' = versions /\ store' = store
    /\ queue' = queue /\ revoked' = revoked
    /\ thr'[t] = Idle

\* the row is, at the commit, the row the session loaded: no other request or
\* report wrote the job in between
Undisturbed(t) == jobs[thr[t].job] = thr[t].loaded

\* C1: every change of a job's status is an edge of the transition table:
\* (new)->QUEUED, QUEUED->RUNNING, RUNNING->SUCCEEDED, QUEUED or RUNNING->FAILED,
\* QUEUED or RUNNING->CANCELED, FAILED->QUEUED, SUCCEEDED->RUNNING.
TableEdges ==
    {<<"QUEUED", "RUNNING">>, <<"RUNNING", "SUCCEEDED">>,
     <<"QUEUED", "FAILED">>, <<"RUNNING", "FAILED">>,
     <<"QUEUED", "CANCELED">>, <<"RUNNING", "CANCELED">>,
     <<"FAILED", "QUEUED">>, <<"SUCCEEDED", "RUNNING">>}

C1_OnlyTableEdges ==
    [][\A j \in DOMAIN jobs' :
          IF j \in DOMAIN jobs
          THEN \/ jobs'[j].status = jobs[j].status
               \/ <<jobs[j].status, jobs'[j].status>> \in TableEdges
          ELSE jobs'[j].status = "QUEUED"]_vars

C3_RetryRejected ==
    [][\A t \in Threads, j \in JobIds :
          RetryJob(t, j) =>
             /\ jobs[j].status \in {"QUEUED", "RUNNING", "SUCCEEDED", "CANCELED"} =>
                   /\ out'.op = "retry" /\ out'.code = 409
                   /\ Untouched(t)
             /\ (jobs[j].status = "FAILED" /\ jobs[j].input_video_uri = NULL) =>
                   /\ out'.op = "retry" /\ out'.code = 400
                   /\ Untouched(t)
                   /\ jobs'[j].status = "FAILED"]_vars

C3_Witness ==
    /\ out.op = "retry" /\ out.code = 400
    /\ out.job \in JobIds
    /\ jobs[out.job].status = "FAILED"
    /\ jobs[out.job].input_video_uri = NULL
    /\ queue = EmptyBag
\* C4: an accepted retry of a FAILED job writes status QUEUED and a trace_id
\* other than the previous one and, when the row is still as the request read
\* it, leaves error_code and error_message null, stage null and progress 0;
\* its successful dispatch adds exactly one process_video task keyed by the
\* job id and changes nothing else.
C4_RetryAccepted ==
    [][\A t \in Threads :
          /\ RetryCommit(t) =>
                LET old == jobs[thr[t].job]
                    new == jobs'[thr[t].job]
                IN /\ new.status = "QUEUED"
                   /\ new.trace_id # NULL /\ new.trace_id # old.trace_id
                   /\ queue' = queue
                   /\ Undisturbed(t) =>
                         /\ old.status = "FAILED"
                         /\ new.error_code = NULL /\ new.error_message = NULL
                         /\ new.stage = NULL /\ new.progress = 0
          /\ (RetryDispatch(t, TRUE) /\ out'.code = 200) =>
                /\ queue' = queue (+) SetToBag({[name |-> "process_video",
                                                 job |-> thr[t].job,
                                                 task_id |-> thr[t].job]})
                /\ jobs' = jobs
                /\ thr'[t] = Idle]_vars

C4_Witness ==
    /\ out.op = "retry" /\ out.code = 200
    /\ jobs[out.job].status = "QUEUED"
    /\ jobs[out.job].error_code = NULL
    /\ jobs[out.job].trace_id = out.trace_id
    /\ BagCardinality(queue) = 1

\* C5: regenerate on a SUCCEEDED job without a frames reference or without a
\* step-data reference answers 400, dispatches nothing and leaves the job row
\* (status, stage, progress, trace_id) as it was.
C5_RegenerateNeedsArtifacts ==
    [][\A t \in Threads, j \in JobIds :
          (/\ RegeneratePptx(t, j)
           /\ jobs[j].status = "SUCCEEDED"
           /\ jobs[j].frames_prefix_uri = NULL \/ jobs[j].steps_json_uri = NULL) =>
             /\ out'.op = "regenerate" /\ out'.code = 400
             /\ Untouched(t)
             /\ jobs'[j].status = "SUCCEEDED"]_vars

C5_Witness ==
    /\ out.op = "regenerate" /\ out.code = 400
    /\ out.job \in JobIds
    /\ jobs[out.job].status = "SUCCEEDED"
    /\ jobs[out.job].frames_prefix_uri = NULL
    /\ queue = EmptyBag

\* C6: an accepted regenerate writes status RUNNING, stage GENERATE_PPTX_ONLY,
\* progress 0 and a new trace_id, leaves current_steps_version, the ledger and
\* the frames, audio, transcript and input references as they were, and its
\* successful dispatch adds one regenerate_pptx task.
C6_RegenerateAccepted ==
    [][\A t \in Threads :
          /\ RegenerateCommit(t) =>
                LET old == jobs[thr[t].job]
                    new == jobs'[thr[t].job]
                IN /\ Undisturbed(t) =>
                        /\ old.status = "SUCCEEDED"
                        /\ new.status = "RUNNING"
                        /\ new.stage = "GENERATE_PPTX_ONLY"
                        /\ new.progress = 0
                        /\ new.trace_id # NULL /\ new.trace_id # old.trace_id
                   /\ new.current_steps_version = old.current_steps_version
                   /\ new.frames_prefix_uri = old.frames_prefix_uri
                   /\ new.audio_uri = old.audio_uri
                   /\ new.transcript_uri = old.transcript_uri
                   /\ new.input_video_uri = old.input_video_uri
                   /\ versions' = versions /\ store' = store /\ queue' = queue
          /\ (RegenerateDispatch(t, TRUE) /\ out'.code = 200) =>
                /\ queue' = queue (+) SetToBag({[name |-> "regenerate_pptx",
                                                 job |-> thr[t].job,
                                                 task_id |-> out'.task_id]})
                /\ jobs' = jobs /\ versions' = versions /\ store' = store
                /\ thr'[t] = Idle]_vars

C6_Witness ==
    /\ out.op = "regenerate" /\ out.code = 200
    /\ jobs[out.job].status = "RUNNING"
    /\ jobs[out.job].stage = "GENERATE_PPTX_ONLY"
    /\ jobs[out.job].progress = 0
    /\ \E task \in BagToSet(queue) : task.name = "regenerate_pptx"
\* a request of one of the four guarded operations that reaches a job which
\* exists and whose status the transition table does not allow for it
WrongStateRequest(t, j, op) ==
    CASE op = "cancel" -> CancelJob(t, j) /\ jobs[j].status \notin {"QUEUED", "RUNNING"}
      [] op = "retry" -> RetryJob(t, j) /\ jobs[j].status # "FAILED"
      [] op = "regenerate" -> RegeneratePptx(t, j) /\ jobs[j].status # "SUCCEEDED"
      [] op = "edit" -> /\ jobs[j].status # "SUCCEEDED"
                        /\ \E body \in EditDocs \ {"NotADict"} : UpdateJobSteps(t, j, body)

\* C7 as stated: cancel, retry, regenerate and edit against an existing job in
\* a state the table does not allow all answer Conflict (409), a code that
\* neither a missing job nor a malformed or schema-invalid request gets.
C7_WrongStateIsConflict ==
    [][\A t \in Threads, j \in JobIds, op \in {"cancel", "retry", "regenerate", "edit"} :
          WrongStateRequest(t, j, op) =>
             /\ out'.op = op /\ out'.code = 409
             /\ out'.code \notin {NotFound(t, op, j).code, InvalidId(t, op, j).code}]_vars

\* C7 as amended: cancel and retry in a wrong state answer 409; regenerate and
\* edit in a wrong state answer 400 with a detail that names the job's status,
\* which differs from 404 for a missing job but is the code a malformed job id
\* and a schema-invalid body get too; in all four the state is left alone.
C7_WrongStateOutcome ==
    [][\A t \in Threads, j \in JobIds, op \in {"cancel", "retry", "regenerate", "edit"} :
          WrongStateRequest(t, j, op) =>
             /\ out'.op = op /\ out'.job = j
             /\ Untouched(t)
             /\ out'.code # NotFound(t, op, j).code
             /\ op \in {"cancel", "retry"} =>
                   /\ out'.code = 409
                   /\ out'.code # InvalidId(t, op, j).code
             /\ op = "regenerate" =>
                   /\ out'.code = 400
                   /\ out'.detail = "Cannot regenerate PPTX for job in "
                                       \o jobs[j].status \o " status"
             /\ op = "edit" =>
                   /\ out'.code = 400
                   /\ out'.detail = "Cannot edit steps for job in "
                                       \o jobs[j].status \o " status"
             /\ op \in {"regenerate", "edit"} =>
                   /\ out'.code = InvalidId(t, op, j).code
                   /\ out'.detail \notin {InvalidId(t, op, j).detail,
                                          "STEPS_SCHEMA_INVALID"}]_vars

C7_Witness ==
    /\ out.op = "edit" /\ out.code = 400
    /\ out.job \in JobIds
    /\ jobs[out.job].status = "RUNNING"
    /\ out.detail = "Cannot edit steps for job in RUNNING status"

\* C8: an accepted edit of a job whose ledger holds N entries appends exactly
\* one entry, version N+1 with edit_source "manual" and the submitted content,
\* returns N+1 and sets current_steps_version to N+1; it leaves the status
\* (SUCCEEDED when nothing else wrote the row meanwhile) and pptx_uri as they
\* were, and no step of an edit changes the task queue.
C8_EditAccepted ==
    [][\A t \in Threads :
          /\ (EditCommit(t) /\ out'.code = 200) =>
                LET j == thr[t].job
                    N == Len(VersionsOf(j))
                IN /\ versions' = Append(versions,
                                         [job_id |-> j, version |-> N + 1,
                                          steps_json |-> thr[t].steps_json,
                                          edit_source |-> "manual",
                                          edit_note |-> "note"])
                   /\ out'.op = "edit" /\ out'.version = N + 1
                   /\ jobs'[j].current_steps_version = N + 1
                   /\ jobs'[j].status = jobs[j].status
                   /\ Undisturbed(t) => jobs'[j].status = "SUCCEEDED"
                   /\ jobs'[j].pptx_uri = jobs[j].pptx_uri
          /\ (\/ \E j \in RequestIds, body \in EditDocs : UpdateJobSteps(t, j, body)
              \/ EditCount(t)
              \/ \E upload_ok \in BOOLEAN : EditUpload(t, upload_ok)
              \/ EditCommit(t)) =>
                queue' = queue]_vars

C8_Witness ==
    /\ out.op = "edit" /\ out.code = 200 /\ out.version = 2
    /\ Len(VersionsOf(out.job)) = 2
    /\ VersionsOf(out.job)[2].edit_source = "manual"
    /\ jobs[out.job].current_steps_version = 2
    /\ jobs[out.job].status = "SUCCEEDED"

\* C9: an edit of a SUCCEEDED job whose step data lacks "steps" or carries a
\* malformed timecode answers STEPS_SCHEMA_INVALID and applies nothing: the
\* ledger, the store and the job row are as before, and get answers the same
\* version and content as before for every version a client can ask for.
C9_InvalidEditAppliesNothing ==
    [][\A t \in Threads, j \in JobIds, body \in {"NoSteps", "BadStart"} :
          (UpdateJobSteps(t, j, body) /\ jobs[j].status = "SUCCEEDED") =>
             /\ out'.op = "edit" /\ out'.code = 400
             /\ out'.detail = "STEPS_SCHEMA_INVALID"
             /\ Untouched(t)
             /\ \A v \in RequestVersions :
                   GetStepsResult(t, j, v)' = GetStepsResult(t, j, v)]_vars

C9_Witness ==
    /\ out.op = "edit" /\ out.detail = "STEPS_SCHEMA_INVALID"
    /\ jobs[out.job].status = "SUCCEEDED"
    /\ jobs[out.job].current_steps_version = 1
    /\ Len(VersionsOf(out.job)) = 1
    /\ GetStepsResult(1, out.job, 0).version = 1

\* C10: the version numbers in a job's ledger are exactly 1..N, N the number
\* of entries appended for the job, with no number used twice.
C10_VersionsContiguous ==
    \A j \in JobIds :
       LET ledger == VersionsOf(j)
       IN /\ {ledger[i].version : i \in 1..Len(ledger)} = 1..Len(ledger)
          /\ \A i, k \in 1..Len(ledger) :
                ledger[i].version = ledger[k].version => i = k

C10_Witness ==
    /\ out.op = "edit" /\ out.detail = "STEPS_SCHEMA_INVALID"
    /\ Len(VersionsOf(out.job)) = 2
    /\ VersionsOf(out.job)[2].version = 2
\* the version numbers a ledger can hold within the request budget
LedgerVersions == 1..(MaxRequests + 1)

\* C11: the ledger is append-only: no step removes an entry or changes the
\* steps_json, edit_source or edit_note of one, so get(version=k) for an entry
\* that exists answers the same before and after every step.
C11_LedgerAppendOnly ==
    [][/\ Len(versions') >= Len(versions)
       /\ \A i \in 1..Len(versions) : versions'[i] = versions[i]
       /\ \A j \in JobIds, k \in LedgerVersions :
             FindVersion(j, k) # <<>> =>
                /\ GetStepsResult(1, j, k).code = 200
                /\ GetStepsResult(1, j, k)' = GetStepsResult(1, j, k)]_vars

C11_Witness ==
    \E j \in JobIds :
       /\ Len(VersionsOf(j)) = 2
       /\ VersionsOf(j)[1].edit_source = "llm"
       /\ VersionsOf(j)[2].edit_source = "manual"
       /\ VersionsOf(j)[2].steps_json # VersionsOf(j)[1].steps_json
       /\ GetStepsResult(1, j, 1).steps_json = VersionsOf(j)[1].steps_json
       /\ jobs[j].current_steps_version = 2
\* C12: for every job whose ledger has an entry, current_steps_version is the
\* version number of an entry of that job's ledger.
C12_CurrentVersionExists ==
    \A j \in JobIds :
       Len(VersionsOf(j)) >= 1 =>
          \E i \in 1..Len(VersionsOf(j)) :
             VersionsOf(j)[i].version = jobs[j].current_steps_version

C12_Witness ==
    /\ out.op = "edit" /\ out.code = 500
    /\ out.job \in JobIds
    /\ Len(VersionsOf(out.job)) = 2
    /\ jobs[out.job].current_steps_version = 2
    /\ FindVersion(out.job, 2) # <<>>
\* C13: the ledger append and the advance of current_steps_version of an edit
\* happen together or not at all: the step that answers 200 adds entry N+1 and
\* leaves current_steps_version at N+1, and a step that fails (snapshot upload
\* or commit) leaves both tables as they were.
C13_EditAtomic ==
    [][\A t \in Threads :
          (EditCommit(t) \/ \E upload_ok \in BOOLEAN : EditUpload(t, upload_ok)) =>
             LET j == thr[t].job
                 v == thr[t].new_version
             IN \/ /\ out'.code = 200
                   /\ Len(versions') = Len(versions) + 1
                   /\ versions'[Len(versions')].job_id = j
                   /\ versions'[Len(versions')].version = v
                   /\ FindVersion(j, v) = <<>>
                   /\ jobs'[j].current_steps_version = v
                \/ /\ out'.code # 200
                   /\ versions' = versions
                   /\ jobs' = jobs]_vars

C13_Witness ==
    /\ out.op = "edit" /\ out.code = 500
    /\ out.detail = "Failed to save steps"
    /\ out.job \in JobIds
    /\ Len(VersionsOf(out.job)) = 1
    /\ jobs[out.job].current_steps_version = 1
\* C14: round trip: when an edit answers 200 with version v, get(version=v)
\* answers 200 with version v and exactly the submitted steps_json, and every
\* later step leaves the answer of get for an existing version as it was.
C14_RoundTrip ==
    [][/\ \A t \in Threads :
             (EditCommit(t) /\ out'.code = 200) =>
                \E j \in JobIds, v \in LedgerVersions :
                   LET after == GetStepsResult(1, j, v)'
                   IN /\ thr[t].job = j
                      /\ out'.version = v
                      /\ after.code = 200
                      /\ after.version = v
                      /\ after.steps_json = thr[t].steps_json
                      /\ after.edit_source = "manual"
       /\ \A j \in JobIds, k \in LedgerVersions :
             FindVersion(j, k) # <<>> =>
                LET before == GetStepsResult(1, j, k)
                    after == GetStepsResult(1, j, k)'
                IN after.steps_json = before.steps_json]_vars

C14_Witness ==
    /\ out.op = "get_steps" /\ out.code = 200
    /\ out.version = 2 /\ out.edit_source = "manual"
    /\ out.job \in JobIds
    /\ Len(VersionsOf(out.job)) = 2
    /\ out.steps_json = VersionsOf(out.job)[2].steps_json
    /\ out.steps_json \in {"S2", "S3"}
\* C15: get answers with the entry of the requested version when it exists,
\* with the entry at current_steps_version when the version is omitted and
\* that entry exists, and with 404 when the job or the requested version
\* does not exist.
C15_GetAnswersRequestedVersion ==
    [][\A t \in Threads, j \in RequestIds \ {MalformedId}, v \in RequestVersions :
          GetJobSteps(t, j, v) =>
             IF j \notin JobIds THEN out'.code = 404
             ELSE LET target == IF v # 0 THEN v ELSE jobs[j].current_steps_version
                      entries == {i \in 1..Len(versions) :
                                     /\ versions[i].job_id = j
                                     /\ versions[i].version = target}
                  IN IF entries # {}
                     THEN /\ out'.code = 200
                          /\ out'.version = target
                          /\ \E i \in entries :
                                /\ out'.steps_json = versions[i].steps_json
                                /\ out'.edit_source = versions[i].edit_source
                     ELSE v # 0 => out'.code = 404]_vars
\* C16: for every job, status is FAILED exactly when error_code is not null.
C16_FailedIffErrorCode ==
    \A j \in JobIds : (jobs[j].status = "FAILED") <=> (jobs[j].error_code # NULL)
\* C17: for every job, stage is null whenever status is not RUNNING.
C17_StageOnlyWhileRunning ==
    \A j \in JobIds : jobs[j].status # "RUNNING" => jobs[j].stage = NULL
\* C18: between a success report and a cancel for the same RUNNING job one
\* check-then-set decides: no step takes a job from CANCELED to SUCCEEDED
\* (an accepted cancel is not overwritten) and none takes it from SUCCEEDED to
\* CANCELED (a cancel is not accepted once the success is persisted).
C18_CancelOrSuccess ==
    [][\A j \in JobIds :
          /\ jobs[j].status = "CANCELED" => jobs'[j].status # "SUCCEEDED"
          /\ jobs[j].status = "SUCCEEDED" => jobs'[j].status # "CANCELED"]_vars
\* a step of the worker: no request starts, advances or answers
WorkerStep == thr' = thr /\ nreq' = nreq

\* the store keys that belong to a job
ArtifactKeys(j) ==
    {VideoKey(j, ext) : ext \in ALLOWED_VIDEO_EXTENSIONS}
       \cup {StepsKey(j, v) : v \in LedgerVersions}
       \cup {"jobs/" \o j \o "/manual.pptx"}

\* C19: once a job is CANCELED, no step of a worker run changes its row
\* (status, stage, progress, error fields, references), its ledger or the
\* store: every later report is ignored.
C19_ReportsAfterCancelIgnored ==
    [][\A j \in JobIds :
          (jobs[j].status = "CANCELED" /\ WorkerStep) =>
             /\ jobs'[j] = jobs[j]
             /\ VersionsOf(j)' = VersionsOf(j)
             /\ \A k \in ArtifactKeys(j) :
                   /\ (k \in DOMAIN store') = (k \in DOMAIN store)
                   /\ k \in DOMAIN store => store'[k] = store[k]]_vars

C19_Witness ==
    \E task \in BagToSet(runs) :
       /\ task.job \in JobIds
       /\ jobs[task.job].status = "CANCELED"
       /\ jobs[task.job].stage # NULL
DispatchFailed(t) ==
    /\ thr[t].op = "batch" /\ thr[t].pc = "except"
    /\ thr[t].error = "Failed to queue job"

\* C21: when the dispatch for one file of a batch fails after its upload, the
\* compensation leaves no Job Record for that file, removes from the Artifact
\* Store the key uploaded for that file and no other key (and removes it
\* whenever the delete succeeds), reports the file in errors, dispatches
\* nothing, and leaves the rows of the jobs created so far as they are, each
\* of them persisted
C21_BatchDispatchFailure ==
    [][\A t \in Threads : DispatchFailed(t) /\ thr'[t] # thr[t] =>
          LET rec == thr[t]
              errors == IF thr'[t].op = "batch" THEN thr'[t].errors ELSE out'.errors
              created == IF thr'[t].op = "batch" THEN thr'[t].created ELSE out'.created
          IN /\ rec.job \notin DOMAIN jobs'
             /\ jobs' = jobs
             /\ queue' = queue
             /\ rec.video_key = VideoKey(rec.job, ".mp4")
             /\ store' \in {store, DropKey(store, rec.video_key)}
             /\ BatchCleanup(t, TRUE) => rec.video_key \notin DOMAIN store'
             /\ errors = Append(rec.errors, ErrorEntry(rec.idx, "Failed to queue job"))
             /\ created = rec.created
             /\ \A i \in 1..Len(created) :
                   /\ created[i].job_id \in DOMAIN jobs'
                   /\ jobs'[created[i].job_id].status = "QUEUED"]_vars

\* a batch answered 201 whose first file became a job and whose second file
\* failed to dispatch and had its video deleted
C21_Witness ==
    /\ out.op = "batch" /\ out.code = 201
    /\ Len(out.created) = 1 /\ out.created[1].file = 1
    /\ Len(out.errors) = 1
    /\ out.errors[1] = ErrorEntry(2, "Failed to queue job")
    /\ DOMAIN jobs = {out.created[1].job_id}
    /\ DOMAIN store = {VideoKey(out.created[1].job_id, ".mp4")}

\* ------------------------------------------------------------------ create
\* C22: a create whose upload has an unsupported extension or is larger than
\* the maximum is answered 400 in its first step, before any persistence: no
\* job row, no write to the Artifact Store, no dispatch, no uuid drawn, and no
\* further step of the request
C22_InvalidUploadRejected ==
    [][\A t \in Threads, file \in Files, upload_ok \in BOOLEAN :
          /\ file.ext \notin ALLOWED_VIDEO_EXTENSIONS \/ file.size_mb > max_video_size_mb
          /\ CreateJob(t, file, upload_ok)
          => /\ out'.op = "create" /\ out'.code = 400
             /\ out'.detail = IF file.ext \notin ALLOWED_VIDEO_EXTENSIONS
                              THEN "Unsupported video format"
                              ELSE "Video file too large"
             /\ jobs' = jobs /\ versions' = versions /\ store' = store
             /\ queue' = queue /\ njobs' = njobs
             /\ thr' = thr /\ thr[t] = Idle]_vars

\* an oversized .mp4 was refused while nothing exists
C22_Witness ==
    /\ out.op = "create" /\ out.code = 400
    /\ out.detail = "Video file too large"
    /\ jobs = <<>> /\ store = <<>> /\ queue = EmptyBag /\ njobs = 0
    /\ nreq = 1

\* C23: a successful create persists a job that is QUEUED with progress 0, no
\* stage, no error fields, current_steps_version 1, only its input video as
\* artifact and no ledger entry; the row is committed while no task of the
\* job exists, and the dispatch that follows adds exactly one pipeline task,
\* whose task id is the job id, and answers 201 with the job id
C23_CreateSucceeds ==
    [][\A t \in Threads :
          /\ CreateCommit(t) =>
                LET j == thr[t].job
                    row == jobs'[j]
                IN /\ j \notin DOMAIN jobs /\ j \in DOMAIN jobs'
                   /\ row.status = "QUEUED" /\ row.progress = 0
                   /\ row.stage = NULL
                   /\ row.error_code = NULL /\ row.error_message = NULL
                   /\ row.current_steps_version = 1
                   /\ row.input_video_uri = S3Uri(thr[t].video_key)
                   /\ thr[t].video_key \in DOMAIN store
                   /\ row.steps_json_uri = NULL /\ row.pptx_uri = NULL
                   /\ row.frames_prefix_uri = NULL
                   /\ VersionsOf(j)' = <<>>
                   /\ queue' = queue
                   /\ \A task \in BagToSet(queue) \cup BagToSet(runs) : task.job # j
          /\ CreateDispatch(t, TRUE) =>
                LET j == thr[t].job
                    task == [name |-> "process_video", job |-> j, task_id |-> j]
                IN /\ j \in DOMAIN jobs /\ jobs' = jobs
                   /\ \A other \in BagToSet(queue) \cup BagToSet(runs) : other.job # j
                   /\ queue' = queue (+) SetToBag({task})
                   /\ CopiesIn(task, queue') = 1
                   /\ VersionsOf(j) = <<>>
                   /\ out'.op = "create" /\ out'.code = 201 /\ out'.job = j]_vars

\* the 201 of a create whose job is QUEUED with its one task in the queue
C23_Witness ==
    /\ out.op = "create" /\ out.code = 201 /\ out.detail = "QUEUED"
    /\ out.job \in JobIds
    /\ jobs[out.job].status = "QUEUED"
    /\ jobs[out.job].current_steps_version = 1
    /\ queue = SetToBag({PipelineTask(out.job)})
    /\ versions = <<>>

\* C24: create fails with a ValidationError and persists no job when the
\* language code is not a recognized one or when the input is empty: with a
\* working Artifact Store, the first step of such a request answers 400,
\* uploads nothing and leaves no Job pending in the session
C24_CreateValidatesInput ==
    [][\A t \in Threads, file \in Files :
          /\ file.language = UnknownLanguage \/ file.size_mb = 0
          /\ CreateJob(t, file, TRUE)
          => /\ out'.op = "create" /\ out'.code = 400
             /\ jobs' = jobs /\ store' = store /\ thr' = thr]_vars

\* ------------------------------------------------------ dispatch failures
\* the members of a Job Record a failed operation must give back
RecordFields == {"status", "stage", "progress", "error_code", "error_message",
                 "trace_id"}

\* C25: when the dispatch fails inside retry or regenerate, the operation
\* fails as a whole: after the failing step the job's status, stage,
\* progress, error_code, error_message and trace_id are those of the record
\* the request loaded, so that a failed regenerate leaves the job SUCCEEDED
C25_DispatchFailureRestores ==
    [][\A t \in Threads :
          RetryDispatch(t, FALSE) \/ RegenerateDispatch(t, FALSE) =>
             \A f \in RecordFields : jobs'[thr[t].job][f] = thr[t].loaded[f]]_vars

\* ---------------------------------------------------------------- liveness
\* the status of the job with id j, NULL while no such row exists
StatusOf(j) == IF j \in JobIds THEN jobs[j].status ELSE NULL

\* the steps that continue a request already being served
HandlerStep(t) ==
    \/ CreateCommit(t)
    \/ \E ok \in BOOLEAN : CreateDispatch(t, ok) \/ CreateCleanup(t, ok)
    \/ CancelCommit(t)
    \/ RetryCommit(t)
    \/ \E ok \in BOOLEAN : RetryDispatch(t, ok) \/ RegenerateDispatch(t, ok)
    \/ RegenerateCommit(t)
    \/ EditCount(t)
    \/ \E ok \in BOOLEAN : EditUpload(t, ok)
    \/ EditCommit(t)

\* a worker takes every task that stays in the queue, and every run ends
WorkerStarts == \E task \in Tasks : WorkerTake(task)
WorkerEnds ==
    \E task \in Tasks :
        \/ \E doc \in GeneratedDocs : WorkerSucceed(task, doc)
        \/ WorkerFail(task)

\* a run reports its first stage before it reports success: the report of
\* success never finds the job still QUEUED
LiveNext ==
    /\ Next
    /\ \A task \in Tasks, doc \in GeneratedDocs :
          WorkerSucceed(task, doc) => StatusOf(task.job) # "QUEUED"

\* every request being served runs to its end, the worker pool makes
\* progress, and clients may stop sending requests at any time
LiveSpec ==
    /\ Init /\ [][LiveNext]_vars
    /\ \A t \in Threads : WF_vars(HandlerStep(t))
    /\ WF_vars(WorkerStarts) /\ WF_vars(WorkerEnds)

\* C26: under worker fairness, and once no further client requests arrive,
\* every job that is QUEUED or RUNNING eventually becomes SUCCEEDED, FAILED or
\* CANCELED, also after a dispatch failure in create, retry or regenerate
C26_EveryJobTerminates ==
    \A j \in {JobUuid(n) : n \in 1..MaxJobs} :
        (StatusOf(j) \in {"QUEUED", "RUNNING"})
            ~> (StatusOf(j) \in {"SUCCEEDED", "FAILED", "CANCELED"})

\* -------------------------------------------------------------------- list
\* the string has the query as a substring, letter case ignored
Contains(str, q) ==
    /\ str # NullText
    /\ \E i \in 1..(Len(str) + 1) :
          /\ i + Len(q) - 1 <= Len(str)
          /\ \A k \in 1..Len(q) : Lower(str[i + k - 1]) = Lower(q[k])

\* the jobs a list request asks for, in the order of their created_at: those
\* with the status of the filter whose title or goal contains the query
Matching(query) ==
    LET wanted(j) ==
            /\ query.status \in {NULL, ""} \/ jobs[j].status = Upper(query.status)
            /\ query.q \in {NullText, <<>>}
               \/ Contains(jobs[j].title, query.q) \/ Contains(jobs[j].goal, query.q)
        ascending == SelectSeq(ByCreatedAt, wanted)
    IN IF query.sort = "-created_at" THEN Reverse(ascending) ELSE ascending

\* C27: an answered list request reports as total the number of jobs that
\* have the status of the filter and whose title or goal contains the query
\* (case-insensitively), returns as page p the elements (p-1)*page_size+1 ..
\* min(p*page_size, total) of them in created_at order, and reports
\* total_pages = ceil(total / page_size), 0 when total is 0; the pages 1 ..
\* total_pages of one query together hold every matching job exactly once
C27_ListPages ==
    out.op = "list" /\ out.code = 200 =>
        LET query == out.request
            wanted == Matching(query)
            first == (query.page - 1) * query.page_size + 1
            last == IF query.page * query.page_size < Len(wanted)
                    THEN query.page * query.page_size ELSE Len(wanted)
            pages == [p \in 1..out.total_pages |->
                         ListResult([query EXCEPT !.page = p]).items]
        IN /\ out.total = Len(wanted)
           /\ out.items = SubSeq(wanted, first, last)
           /\ out.total_pages * query.page_size >= out.total
           /\ out.total > 0 => (out.total_pages - 1) * query.page_size < out.total
           /\ out.total = 0 => out.total_pages = 0
           /\ \A j \in JobIds :
                 Cardinality({pi \in {<<p, i>> : p \in 1..out.total_pages,
                                                 i \in 1..MaxPageSize} :
                                 /\ pi[2] <= Len(pages[pi[1]])
                                 /\ pages[pi[1]][pi[2]] = j})
                    = IF \E i \in 1..Len(wanted) : wanted[i] = j THEN 1 ELSE 0

\* the positions of the files named by the entries of created or of errors
FilesOf(entries) == [i \in 1..Len(entries) |-> entries[i].file]

\* C28: a batch of n files, 1 <= n <= 10, is answered with exactly one entry
\* per file, in created or in errors (so total_created + total_errors = n);
\* a file that fails does not stop the loop, which goes on with the next
\* file; the answer is 201 exactly when a job was created, else 400; and a
\* batch of more than 10 files is refused as a whole, with nothing created,
\* uploaded or dispatched
C28_BatchEntries ==
    [][\A t \in Threads :
          /\ \A n \in BatchSizes :
                n > 10 /\ BatchStart(t, n) =>
                   /\ out'.op = "batch" /\ out'.code = 400
                   /\ out'.created = <<>> /\ out'.errors = <<>>
                   /\ jobs' = jobs /\ store' = store /\ queue' = queue
                   /\ njobs' = njobs /\ thr' = thr
          /\ thr[t].op = "batch" /\ thr'[t] # thr[t] =>
                LET rec == thr[t]
                    done == rec.idx - 1
                IN /\ rec.n \in 1..10 /\ rec.idx \in 1..rec.n
                   /\ Len(rec.created) + Len(rec.errors) = done
                   /\ {FilesOf(rec.created)[i] : i \in 1..Len(rec.created)}
                        \cup {FilesOf(rec.errors)[i] : i \in 1..Len(rec.errors)}
                        = 1..done
                   /\ thr'[t].op = "batch" =>
                         /\ thr'[t].idx \in {rec.idx, rec.idx + 1}
                         /\ thr'[t].idx = rec.idx =>
                               /\ thr'[t].created = rec.created
                               /\ thr'[t].errors = rec.errors
                         /\ thr'[t].idx = rec.idx + 1 =>
                               /\ thr'[t].pc = "file"
                               /\ Len(thr'[t].created) + Len(thr'[t].errors) = rec.idx
                   /\ thr'[t].op # "batch" =>
                         /\ rec.idx = rec.n
                         /\ out'.op = "batch"
                         /\ Len(out'.created) + Len(out'.errors) = rec.n
                         /\ {FilesOf(out'.created)[i] : i \in 1..Len(out'.created)}
                              \cup {FilesOf(out'.errors)[i] : i \in 1..Len(out'.errors)}
                              = 1..rec.n
                         /\ out'.code = 201 <=> out'.created # <<>>
                         /\ out'.code = 400 <=> out'.created = <<>>
                         /\ \A i \in 1..Len(out'.created) :
                               out'.created[i].job_id \in DOMAIN jobs']_vars

\* a batch of two files answered 201: the first file was refused, the second
\* became a job
C28_Witness ==
    /\ out.op = "batch" /\ out.code = 201
    /\ Len(out.errors) = 1 /\ out.errors[1].file = 1
    /\ Len(out.created) = 1 /\ out.created[1].file = 2
    /\ out.created[1].job_id \in JobIds
    /\ BagIn(PipelineTask(out.created[1].job_id), queue)

\* C29: in the compensation after a failed dispatch during creation, a
\* delete of the uploaded video that fails is not raised further. In
\* create_job the caller receives the 500 of the dispatch failure and the
\* row is the FAILED / QUEUE_ERROR row whether the delete succeeds or fails;
\* in create_batch_jobs the file gets its "Failed to queue job" entry, no row
\* exists for it and the loop goes on, whether the delete succeeds or fails;
\* a failing delete leaves the store as it is
C29_FailingDeleteSwallowed ==
    [][\A t \in Threads, delete_ok \in BOOLEAN :
          /\ CreateCleanup(t, delete_ok) =>
                /\ out' = Response(t, "create", thr[t].job, 500,
                                   "Failed to queue processing task")
                /\ jobs' = jobs /\ queue' = queue
                /\ jobs'[thr[t].job].error_code = "QUEUE_ERROR"
                /\ thr'[t] = Idle
                /\ ~delete_ok => store' = store
          /\ DispatchFailed(t) /\ BatchCleanup(t, delete_ok) =>
                LET errors == IF thr'[t].op = "batch" THEN thr'[t].errors
                              ELSE out'.errors
                IN /\ errors = Append(thr[t].errors,
                                      ErrorEntry(thr[t].idx, "Failed to queue job"))
                   /\ jobs' = jobs /\ queue' = queue
                   /\ thr[t].job \notin DOMAIN jobs'
                   /\ IF thr[t].idx < thr[t].n
                      THEN thr'[t].op = "batch" /\ thr'[t].pc = "file"
                      ELSE out'.op = "batch" /\ out'.code \in {201, 400}
                   /\ ~delete_ok => store' = store]_vars

\* a create and then a batch of one file both failed to dispatch and both
\* failed to delete their video: the job of the create is FAILED, the file of
\* the batch has its error entry and no row, and both videos are still stored
C29_Witness ==
    /\ out.op = "batch" /\ out.code = 400
    /\ out.errors = <<ErrorEntry(1, "Failed to queue job")>>
    /\ DOMAIN jobs = {JobUuid(1)}
    /\ jobs[JobUuid(1)].status = "FAILED"
    /\ jobs[JobUuid(1)].error_code = "QUEUE_ERROR"
    /\ DOMAIN store = {VideoKey(JobUuid(1), ".mp4"), VideoKey(JobUuid(2), ".mp4")}
    /\ queue = EmptyBag

\* ------------------------------------------------------------- concurrency
\* the requests of one kind that have passed the status check for job j and
\* have not yet dispatched
Accepted(op, j) ==
    {t \in Threads : /\ thr[t].op = op /\ thr[t].pc \in {"commit", "dispatch"}
                     /\ thr[t].job = j}

\* C30: of two concurrent retries, or two concurrent regenerates, of one job
\* at most one passes the status check and dispatches, the other is refused
\* with a Conflict: never are two requests of the same kind accepted for the
\* same job at once, and never do two pipeline tasks, or two slideshow-only
\* tasks, exist for one job
C30_OneAcceptedPerTransition ==
    \A j \in JobIds :
        /\ Cardinality(Accepted("retry", j)) <= 1
        /\ Cardinality(Accepted("regenerate", j)) <= 1
        /\ CopiesIn(PipelineTask(j), queue (+) runs) <= 1
        /\ Cardinality({task \in Tasks :
               task.job = j /\ task.name = "regenerate_pptx"}) <= 1

\* C31: an edit appends a ledger entry only while the job is SUCCEEDED: when
\* an edit and a regenerate of the same job run concurrently, the commit of
\* the edit that adds a version and advances current_steps_version never
\* finds the job already moved to RUNNING by the regenerate
C31_NoEditAfterRegenerate ==
    [][\A t \in Threads :
          EditCommit(t) /\ versions' # versions =>
             jobs[thr[t].job].status # "RUNNING"]_vars
\* C32: when valid edits of one SUCCEEDED job run concurrently, every commit
\* of an edit either is accepted and appends the entry with the next version
\* number, or is rejected and leaves the ledger and the job row as they are
\* (its version number being taken already); the ledger never holds two
\* entries with the same (job_id, version) and its numbers stay 1..N
C32_ConcurrentEditsKeepLedgerDense ==
    [][\A t \in Threads, j \in JobIds :
          EditCommit(t) /\ thr[t].job = j =>
             LET before == VersionsOf(j)
                 after == VersionsOf(j)'
             IN /\ \/ /\ out'.code = 200
                      /\ Len(after) = Len(before) + 1
                      /\ after[Len(after)].version = Len(before) + 1
                      /\ out'.version = Len(before) + 1
                      /\ \A i \in 1..Len(before) : after[i] = before[i]
                   \/ /\ out'.code = 500
                      /\ versions' = versions /\ jobs' = jobs
                      /\ \E i \in 1..Len(before) :
                            before[i].version = thr[t].new_version
                /\ \A i, k \in 1..Len(after) :
                      after[i].version = after[k].version => i = k
                /\ {after[i].version : i \in 1..Len(after)} = 1..Len(after)]_vars

\* the second of two concurrent edits was rejected at its commit: the ledger
\* holds the generated version and the version of the first edit only
C32_Witness ==
    /\ out.op = "edit" /\ out.code = 500 /\ out.detail = "Internal Server Error"
    /\ out.job \in JobIds
    /\ Len(VersionsOf(out.job)) = 2
    /\ VersionsOf(out.job)[2].edit_source = "manual"
    /\ jobs[out.job].current_steps_version = 2

\* ---------------------------------------------------------------- validator
\* two digits, then one or two times a colon and two digits
TwoDigits(chars, i) == chars[i] \in Digits /\ chars[i + 1] \in Digits
IsMMSS(chars) ==
    Len(chars) = 5 /\ TwoDigits(chars, 1) /\ chars[3] = ":" /\ TwoDigits(chars, 4)
IsHHMMSS(chars) ==
    /\ Len(chars) = 8 /\ TwoDigits(chars, 1) /\ chars[3] = ":"
    /\ TwoDigits(chars, 4) /\ chars[6] = ":" /\ TwoDigits(chars, 7)

\* C33: the edit validator accepts a document exactly when the start, end
\* and shot timestamps of its steps are each in MM:SS or in HH:MM:SS form
\* (the rest of the document being in order)
C33_TimestampForms ==
    out.op = "validate_steps_json" =>
        (~out.raised <=>
            \A tc \in {out.start, out.end, out.shot} : IsMMSS(tc) \/ IsHHMMSS(tc))

\* ----------------------------------------------------------- generate_steps
\* the response parses and passes the steps schema
Passes(response) == response.kind = "text" /\ ParseError(response) = NULL
\* the response is a text that fails to parse or to pass the schema
FailsValidation(response) == response.kind = "text" /\ ParseError(response) # NULL

\* C34: generate_steps calls the provider at most max_retries + 1 times; it
\* returns exactly when a response passes, that response being the first
\* that passes and the last one asked for, and the document returned is
\* schema-valid; when max_retries + 1 responses fail validation it raises the
\* validation error of the last of them; and a provider error ends the call
\* at once, as the last response asked for
C34_GenerateSteps ==
    /\ thr[1].op = "generate_steps" =>
          /\ Len(thr[1].responses) = thr[1].attempt
          /\ thr[1].attempt <= thr[1].max_retries
          /\ \A i \in 1..Len(thr[1].responses) : FailsValidation(thr[1].responses[i])
    /\ out.op = "generate_steps" /\ out.max_retries >= 0 =>
          LET n == Len(out.responses)
              earlier == {out.responses[i] : i \in 1..(n - 1)}
              last == out.responses[n]
          IN /\ n >= 1 /\ n <= out.max_retries + 1
             /\ \A r \in earlier : FailsValidation(r)
             /\ out.result = "return" <=> Passes(last)
             /\ out.result = "return" => ValidStepsJson(out.doc)
             /\ out.result = "LLMValidationError" <=>
                   FailsValidation(last) /\ n = out.max_retries + 1
             /\ out.result = "LLMValidationError" =>
                   out.error = <<ParseError(last), n - 1>>
             /\ out.result = "LLMError" <=> last.kind = "LLMError"
             /\ FailsValidation(last) => n = out.max_retries + 1

\* with max_retries 2: two responses failed validation, in two ways, and the
\* third, wrapped in a code block, passed and was returned
C34_Witness ==
    /\ out.op = "generate_steps" /\ out.max_retries = 2
    /\ out.result = "return"
    /\ Len(out.responses) = 3
    /\ ParseError(out.responses[1]) = "Invalid JSON"
    /\ ParseError(out.responses[2]) = "Schema validation failed"
    /\ out.responses[3].text = <<FenceJson, "S1", Fence>>
    /\ out.doc.val["source"].val["llm_provider"] = JStr(<<"m">>)

\* C35: a pipeline task is dispatched only after the Job row it is keyed by is
\* committed, by create_job and by create_batch_jobs: no dispatched task names
\* a job id that has no row in the table jobs, also when the commit that
\* follows the dispatch fails
C35_TaskHasJobRecord ==
    \A task \in Tasks : task.job \in JobIds

\* C36: an accepted cancel of a RUNNING job requests the revocation of the
\* task id under which the task of the job that is in flight was dispatched,
\* be it the pipeline task (task id = job id) or the regeneration task
\* (task id = job_id-pptx-trace_id)
C36_CancelRevokesInFlightTask ==
    [][\A t \in Threads :
          CancelCommit(t) /\ thr[t].loaded.status = "RUNNING" =>
             \A task \in Tasks :
                task.job = thr[t].job => task.task_id \in revoked']_vars

\* the ledger entries written by update_job_steps
ManualEntries == {i \in 1..Len(versions) : versions[i].edit_source = "manual"}

\* C37: whatever edits were attempted and however they interleave, the
\* steps_json_uri of an edited job names the key
\* jobs/{job_id}/steps_v{current_steps_version}.json, and for every version an
\* edit wrote the blob stored under jobs/{job_id}/steps_v{version}.json is
\* the steps_json of that ledger entry: no failed or concurrent edit replaces
\* the snapshot of an accepted version by other content
C37_SnapshotsMatchLedger ==
    \A i \in ManualEntries :
       LET entry == versions[i]
           key == StepsKey(entry.job_id, entry.version)
       IN /\ key \in DOMAIN store
          /\ store[key] = entry.steps_json
          /\ entry.version = jobs[entry.job_id].current_steps_version =>
                jobs[entry.job_id].steps_json_uri = S3Uri(key)

\* C38: no request handler takes a job out of CANCELED behind the cancel's
\* back: the dispatch-failure branch of create_job and of retry_job, run after
\* a cancel of the same job was committed, leaves the status CANCELED instead
\* of writing FAILED over it, and no job is CANCELED with an error_code
C38_CanceledAbsorbing ==
    /\ [](\A j \in JobIds : jobs[j].status = "CANCELED" => jobs[j].error_code = NULL)
    /\ [][\A t \in Threads, j \in JobIds :
            /\ CreateDispatch(t, FALSE) \/ RetryDispatch(t, FALSE)
            /\ thr[t].job = j
            /\ jobs[j].status = "CANCELED"
            => jobs'[j].status = "CANCELED"]_vars

\* the Artifact Store holds the object a reference names
Stored(uri) == \E key \in DOMAIN store : S3Uri(key) = uri

\* C39: the input video a job refers to was not removed by a handler's own
\* cleanup: every job with a non-null input_video_uri still has that video in
\* the Artifact Store (also after the dispatch-failure branch of create_job),
\* so that an accepted retry dispatches the pipeline against an input that
\* exists
C39_InputVideoKept ==
    /\ [](\A j \in JobIds :
             jobs[j].input_video_uri # NULL => Stored(jobs[j].input_video_uri))
    /\ [][\A t \in Threads, j \in JobIds :
             RetryDispatch(t, TRUE) /\ thr[t].job = j =>
                Stored(jobs[j].input_video_uri)]_vars

\* C40: in a batch, the error handling of one file deletes from the Artifact
\* Store at most the key uploaded for that same file: whatever step of a
\* later file fails, also one before the key of that file is computed, the
\* input video of a job created and committed for an earlier file stays in
\* the store
C40_BatchErrorDeletesOwnKeyOnly ==
    [][\A t \in Threads :
          (\E delete_ok \in BOOLEAN : BatchCleanup(t, delete_ok)) =>
             /\ \A key \in DOMAIN store \ DOMAIN store' :
                   /\ thr[t].job # NULL
                   /\ \E ext \in ALLOWED_VIDEO_EXTENSIONS :
                         key = VideoKey(thr[t].job, ext)
             /\ \A j \in JobIds, key \in DOMAIN store :
                   S3Uri(key) = jobs[j].input_video_uri =>
                      key \in DOMAIN store']_vars
====
